---- MODULE Spec2Model ----
(***************************************************************************)
(* Verification model of the agentic-rag backend core:                     *)
(*   - the multi-round tool loop  stream_chat_completion (services/llm.py) *)
(*   - the tool registry dispatch execute_tool (tools/_registry.py)        *)
(*   - reciprocal_rank_fusion (services/retrieval.py)                      *)
(*   - retrieve_chunks (services/retrieval.py) with generate_sub_queries   *)
(*     (services/query_expansion.py) and rerank_chunks                     *)
(*     (services/reranker.py)                                              *)
(*   - the chat request handler and its event generator (routers/chat.py)  *)
(*   - run_sub_agent (services/sub_agent.py)                               *)
(*   - manage_tags (tools/manage_tags.py)                                  *)
(*   - ingest_document (services/ingestion.py)                             *)
(* Each part has its own specification over the shared variable tuple;     *)
(* the variables of the other parts stay at their initial values.          *)
(***************************************************************************)
EXTENDS Integers, Sequences, FiniteSets, TLC

VARIABLES
    \* ---- stream_chat_completion ----
    has_documents,      \* ToolContext.has_documents (retrieve_fn is set iff TRUE, chat.py:56-71)
    web_enabled,        \* settings.web_search_enabled and settings.perplexity_api_key
    pc,                 \* position of the generator
    round_num,          \* loop variable of the tool loop
    choice,             \* response.choices[0] of the last tool-offering completion
    pending,            \* the tool calls being processed in this round
    tc_idx,             \* index into pending of the next call to execute
    running,            \* indexes of the calls whose _execute_tool is awaited
    full_messages,      \* messages sent with the next completion request
    status_events,      \* status collector filled by on_status
    used_deep_analysis,
    out,                \* everything the generator has yielded, in order
    requests,           \* completion requests issued, in order
    log,                \* execution trace of tool calls
    \* ---- execute_tool (registry) ----
    plugins,            \* _plugins: the set of registered names
    reg_calls,          \* execute_tool calls made so far: name, outcome
    handler_calls,      \* handler invocations so far
    \* ---- reciprocal_rank_fusion ----
    result_lists,       \* the ranked lists A and B
    rrf_k,              \* k
    rrf_op,             \* which fusion was run last
    merged,             \* its return value
    \* ---- retrieve_chunks ----
    search_mode,            \* settings.search_mode
    rag_fusion_enabled,     \* settings.rag_fusion_enabled
    rerank_enabled,         \* settings.rerank_enabled
    rag_fusion_query_count, \* settings.rag_fusion_query_count
    top_k,                  \* the top_k argument
    ret_pc,                 \* position of the coroutine
    expansion,              \* the generate_sub_queries calls made: model output, return value
    all_queries,
    searches,               \* the search tasks: state and rows returned
    per_query_results,      \* the _retrieve_one tasks: state and rows returned
    ret_results,            \* the merged list before reranking or truncation
    rerank_calls,           \* the rerank_chunks calls made: arguments, model output
    returned,               \* the return value
    score_writes,           \* the writes of rrf_score / rerank_score: field, dict written, writer
    \* ---- rerank_chunks called on its own ----
    rr_chunks,              \* chunks
    rr_top_n,               \* top_n
    rr_ret,                 \* the calls made: model output, ranking, return value
    \* ---- chat / event_generator (routers/chat.py) ----
    turn_pc,                \* position of the request handler and its generator
    messages_table,         \* the rows of the messages table for the thread
    history_len,            \* Len(messages_table) when the request arrived
    stream_events,          \* what stream_chat_completion has yet to yield
    stream_end,             \* how the stream ends: it returns or it raises
    full_content,           \* number of tokens accumulated
    sse_out,                \* the events sent to the client
    thread_title,
    \* ---- run_sub_agent ----
    sub_pc,                 \* position of the coroutine
    sub_round,              \* round_num
    sub_choice,             \* response.choices[0]
    sub_idx,                \* index of the next structured tool call
    sub_requests,           \* completion requests issued: "tools" or "plain"
    sub_executed,           \* names _execute_sub_agent_tool was called with
    sub_refused,            \* names answered with a "not available" tool message
    sub_status,             \* labels passed to on_status
    sub_ret,                \* what was returned
    \* ---- _parse_text_tool_calls called on its own ----
    parse_pc,
    parse_content,          \* the model output
    parse_ret,              \* the return value
    \* ---- manage_tags ----
    tag_pc,
    tag_args,               \* the arguments of the tool call
    tag_env,                \* what retrieval and the store answer
    tag_rpcs,               \* sb.rpc calls made, by name
    tag_selects,            \* number of sb.table(...).select queries made
    tag_result,             \* kind of the message returned
    \* ---- ingest_document ----
    ing_pc,                 \* position of the coroutine
    doc_exists,             \* the documents row is there
    doc_status,             \* documents.status
    status_writes,          \* the updates of documents.status, in order
    text_empty,             \* the cleaned text is blank
    n_chunks,               \* number of chunks of the text
    n_embedded,             \* number of chunks that have their embedding
    chunks_inserted         \* number of chunk rows inserted

vars == <<has_documents, web_enabled, pc, round_num, choice, pending, tc_idx,
          running, full_messages, status_events, used_deep_analysis, out,
          requests, log, plugins, reg_calls, handler_calls,
          result_lists, rrf_k, rrf_op, merged,
          search_mode, rag_fusion_enabled, rerank_enabled, rag_fusion_query_count,
          top_k, ret_pc, expansion, all_queries, searches, per_query_results,
          ret_results, rerank_calls, returned, score_writes, rr_chunks, rr_top_n, rr_ret,
          turn_pc, messages_table, history_len, stream_events, stream_end,
          full_content, sse_out, thread_title,
          sub_pc, sub_round, sub_choice, sub_idx, sub_requests, sub_executed,
          sub_refused, sub_status, sub_ret,
          parse_pc, parse_content, parse_ret,
          tag_pc, tag_args, tag_env, tag_rpcs, tag_selects, tag_result,
          ing_pc, doc_exists, doc_status, status_writes, text_empty, n_chunks,
          n_embedded, chunks_inserted>>

chatVars == <<has_documents, web_enabled, pc, round_num, choice, pending, tc_idx,
              running, full_messages, status_events, used_deep_analysis, out,
              requests, log>>
regVars == <<plugins, reg_calls, handler_calls>>
rrfVars == <<result_lists, rrf_k, rrf_op, merged>>
retCfg == <<search_mode, rag_fusion_enabled, rerank_enabled, rag_fusion_query_count, top_k>>
retVars == <<retCfg, ret_pc, expansion, all_queries, searches, per_query_results,
             ret_results, rerank_calls, returned, score_writes>>
rerankVars == <<rr_chunks, rr_top_n, rr_ret>>
coreVars == <<chatVars, regVars, rrfVars, retVars, rerankVars>>
turnVars == <<turn_pc, messages_table, history_len, stream_events, stream_end,
              full_content, sse_out, thread_title>>
subVars == <<sub_pc, sub_round, sub_choice, sub_idx, sub_requests, sub_executed,
             sub_refused, sub_status, sub_ret>>
parseVars == <<parse_pc, parse_content, parse_ret>>
tagVars == <<tag_pc, tag_args, tag_env, tag_rpcs, tag_selects, tag_result>>
ingestVars == <<ing_pc, doc_exists, doc_status, status_writes, text_empty, n_chunks,
                n_embedded, chunks_inserted>>
\* The variables of the parts specified further down.
lateVars == <<turnVars, subVars, parseVars, tagVars, ingestVars>>

\* ------------------------------------------------------------------------
\* Bounds of the model
\* ------------------------------------------------------------------------
MaxCalls == 2       \* tool calls in one model response
MaxStatus == 2      \* status callbacks of one deep_analysis run
MaxRegCalls == 2    \* execute_tool calls in one behaviour
MaxLen == 3         \* rows in one ranked list
MaxTopK == 2        \* top_k / top_n
MaxCount == 1       \* rag_fusion_query_count
MaxEvents == 2      \* events of one chat stream
MaxSubCalls == 2    \* tool calls in one response to the sub-agent
MaxSegs == 3        \* segments of one model output given to the parser
MaxDocs == 1        \* documents a tag operation finds
MaxBatches == 3     \* full insert batches of one ingested document

\* ------------------------------------------------------------------------
\* stream_chat_completion
\* ------------------------------------------------------------------------
MAX_TOOL_ROUNDS == 3

NoChoice == [finish_reason |-> "none", tool_calls |-> <<>>, content |-> <<>>]

\* get_tools(has_documents): the catalog offered to the model.  The sql,
\* sub-agent and graph settings keep their defaults (True, config.py:31-37).
get_tools(hd, web) ==
    (IF hd THEN <<"retrieve_documents">> ELSE <<>>)
    \o (IF hd THEN <<"query_documents_metadata">> ELSE <<>>)
    \o (IF web THEN <<"web_search">> ELSE <<>>)
    \o (IF hd THEN <<"deep_analysis">> ELSE <<>>)
    \o (IF hd THEN <<"graph_search">> ELSE <<>>)

tools == get_tools(has_documents, web_enabled)

\* Names the model stub draws its calls from, cyclically.
CallNames == <<"retrieve_documents", "web_search", "deep_analysis">>

NameAt(start, i) == CallNames[((start + i) % Len(CallNames)) + 1]

\* A structured tool call: id, function.name and whether function.arguments
\* is well-formed JSON.
StructCalls(start, n, bad) ==
    [i \in 1..n |-> [name |-> NameAt(start, i), json_ok |-> (i # bad)]]

\* Message content is a sequence of segments: a text token, or a
\* <function=NAME>...</function> block.
TextSeg == [seg |-> "text", name |-> ""]
FuncSeg(nm) == [seg |-> "function", name |-> nm]

TextCallContent(start, n) ==
    <<TextSeg>> \o [i \in 1..n |-> FuncSeg(NameAt(start, i))]

\* _parse_text_tool_calls: the <function=...> blocks of the content in text
\* order, or None (modelled as <<>>, which the caller tests by truthiness).
\* Variant: every object carrying a name counts as a call.
IsNamedBlock(s) == s.seg \in {"function", "object"}

\* lines 243-244: what the pattern <function=(\w+)>(.*?)</function> matches.
IsFunctionBlock(s) == s.seg = "function"

RECURSIVE _parse_text_tool_calls(_)
_parse_text_tool_calls(content) ==
    IF content = <<>> THEN <<>>
    ELSE LET rest == _parse_text_tool_calls(Tail(content))
         IN IF IsFunctionBlock(Head(content))
            THEN <<[name |-> Head(content).name, json_ok |-> TRUE]>> \o rest
            ELSE rest

\* The completions the model stub may return to a tool-offering request.
Responses ==
    {[finish_reason |-> "tool_calls", tool_calls |-> StructCalls(s, n, b), content |-> <<>>] :
        s \in 0..1, n \in 1..MaxCalls, b \in 0..1}
    \cup {[finish_reason |-> "tool_calls", tool_calls |-> StructCalls(0, n, n), content |-> <<>>] :
        n \in 2..MaxCalls}
    \cup {[finish_reason |-> "stop", tool_calls |-> <<>>, content |-> TextCallContent(s, n)] :
        s \in 0..1, n \in 1..MaxCalls}
    \cup {[finish_reason |-> "stop", tool_calls |-> <<>>, content |-> c] :
        c \in {<<>>, <<TextSeg>>}}
    \cup {[finish_reason |-> "tool_calls", tool_calls |-> <<>>, content |-> <<TextSeg>>],
          [finish_reason |-> "stop", tool_calls |-> StructCalls(0, 1, 0), content |-> <<TextSeg>>]}

\* A streamed completion: the delta.content of each chunk ("" when empty).
Streams == {<<>>, <<"", "tok">>, <<"tok", "tok">>}

Text(c) == [type |-> "text", tool_name |-> "", data |-> c]
ToolEvent(tn, d) == [type |-> "event", tool_name |-> tn, data |-> d]

RECURSIVE StreamTokens(_)
StreamTokens(s) ==
    IF s = <<>> THEN <<>>
    ELSE IF Head(s) # "" THEN <<Text(<<Head(s)>>)>> \o StreamTokens(Tail(s))
         ELSE StreamTokens(Tail(s))

Request(phase, withTools, stream) ==
    [phase |-> phase, round |-> round_num, tools |-> withTools, stream |-> stream,
     nmsgs |-> Len(full_messages)]

Msg(role, id, nm, body) == [role |-> role, tool_call_id |-> id, name |-> nm, body |-> body]

\* chat.py:56-71: retrieve_fn is defined exactly when the user has documents.
retrieve_fn == has_documents

\* _execute_tool: what the dispatch on tool_name returns.  kind is the Python
\* type of the result; sub_agent tells that run_sub_agent ran (the only tool
\* that calls on_status).
_execute_tool(tool_name) ==
    IF tool_name = "retrieve_documents" /\ retrieve_fn
    THEN [kind |-> "str", body |-> "chunks", sub_agent |-> FALSE]
    ELSE IF tool_name = "query_documents_metadata"
    THEN [kind |-> "str", body |-> "metadata", sub_agent |-> FALSE]
    ELSE IF tool_name = "web_search"
    THEN [kind |-> "dict", body |-> "answer", sub_agent |-> FALSE]
    ELSE IF tool_name = "deep_analysis" /\ retrieve_fn
    THEN [kind |-> "str", body |-> "analysis", sub_agent |-> TRUE]
    ELSE IF tool_name = "graph_search"
    THEN [kind |-> "str", body |-> "graph", sub_agent |-> FALSE]
    ELSE [kind |-> "str", body |-> "Unknown tool", sub_agent |-> FALSE]

\* line 371: the branch taken on a completion.
IsStructured(ch) == ch.finish_reason = "tool_calls" /\ ch.tool_calls # <<>>

\* tool_call.id: unique per call of the turn.
CallId(r, i) == (r + 1) * 10 + i

LogEv(ev, r, i, nm) == [ev |-> ev, id |-> CallId(r, i), name |-> nm]
\* A completion request in the trace; name tells how it was answered:
\* "structured", "text" (text-encoded calls), "none" (no call) or "stream".
RequestEv(answer) == [ev |-> "request", id |-> 0, name |-> answer]

\* {"done": True} of deep_analysis; its status events carry the number of
\* the on_status callback (1, 2, ...), a web_search event the id of its call.
DoneEvent == ToolEvent("deep_analysis", 0)

\* Variant: the collector is never emptied.
ClearNothing(events) == events

\* lines 380, 384, 412 and 416: status_events.clear()
Clear(events) == <<>>

\* Variant: the calls of a round are started together (gathered).
MayStartGathered(in_flight) == TRUE

\* lines 381 and 413: `await _execute_tool(...)` suspends the loop body, so a
\* call is taken up only when no other call is in flight.
MayStart(in_flight) == in_flight = {}

\* Variant: the content is yielded without the emptiness test of line 399.
FinalAnswerUnchecked(ch, used) ==
    (IF used THEN <<DoneEvent>> ELSE <<>>) \o <<Text(ch.content)>>

\* lines 396-401: what the loop yields when a completion carries no call.
FinalAnswer(ch, used) ==
    (IF used THEN <<DoneEvent>> ELSE <<>>)
    \o (IF ch.content # <<>> THEN <<Text(ch.content)>> ELSE <<>>)

\* Variant: a round of text-encoded calls returns instead of continuing.
AfterRoundTextReturns(ch, r) ==
    IF ~IsStructured(ch) THEN "done"
    ELSE IF r + 1 < MAX_TOOL_ROUNDS THEN "await_model" ELSE "final"

\* lines 362, 394 and 433: where the loop goes once the calls of round r,
\* requested by completion ch, all have their result: `continue` or the end
\* of the loop body starts the next round, and after the last round the
\* loop falls through to the final request.
AfterRound(ch, r) ==
    IF r + 1 < MAX_TOOL_ROUNDS THEN "await_model" ELSE "final"

ChatInit ==
    /\ has_documents \in BOOLEAN
    /\ web_enabled \in BOOLEAN
    \* web_search_enabled defaults to True (config.py:30); it is switched off
    \* only in the document-free configuration, which gives the no-tools path.
    /\ has_documents => web_enabled
    /\ pc = "start"
    /\ round_num = 0
    /\ choice = NoChoice
    /\ pending = <<>>
    /\ tc_idx = 1
    /\ running = {}
    /\ full_messages = <<Msg("system", 0, "", "prompt"), Msg("user", 0, "", "question")>>
    /\ status_events = <<>>
    /\ used_deep_analysis = FALSE
    /\ out = <<>>
    /\ requests = <<>>
    /\ log = <<>>

\* lines 341-352: no tools, one streaming request, every non-empty delta is
\* yielded.
StreamDirect ==
    /\ pc = "start"
    /\ tools = <<>>
    /\ \E s \in Streams :
        /\ requests' = Append(requests, Request("direct", FALSE, TRUE))
        /\ out' = out \o StreamTokens(s)
    /\ log' = Append(log, RequestEv("stream"))
    /\ pc' = "done"
    /\ UNCHANGED <<regVars, rrfVars, retVars, rerankVars, lateVars>>
    /\ UNCHANGED <<has_documents, web_enabled, round_num, choice, pending, tc_idx,
                   running, full_messages, status_events, used_deep_analysis>>

\* lines 354-362: tools enabled, enter the loop.
EnterLoop ==
    /\ pc = "start"
    /\ tools # <<>>
    /\ status_events' = <<>>
    /\ used_deep_analysis' = FALSE
    /\ round_num' = 0
    /\ pc' = "await_model"
    /\ UNCHANGED <<regVars, rrfVars, retVars, rerankVars, lateVars>>
    /\ UNCHANGED <<has_documents, web_enabled, choice, pending, tc_idx, running,
                   full_messages, out, requests, log>>

Listed(r, calls) == [i \in 1..Len(calls) |-> LogEv("listed", r, i, calls[i].name)]

\* lines 363-404: one tool-offering completion request and the branch on its
\* answer, up to the first await of a tool.
RequestCompletion ==
    /\ pc = "await_model"
    /\ round_num < MAX_TOOL_ROUNDS
    /\ \E resp \in Responses :
        /\ requests' = Append(requests, Request("tool_check", TRUE, FALSE))
        /\ choice' = resp
        /\ IF IsStructured(resp)
           THEN \* line 404
                /\ full_messages' = Append(full_messages, Msg("assistant", 0, "", "tool_calls"))
                /\ pending' = resp.tool_calls
                /\ tc_idx' = 1
                /\ pc' = "exec"
                /\ out' = out
                /\ log' = log \o <<RequestEv("structured")>> \o Listed(round_num, resp.tool_calls)
           ELSE LET text_tool_calls == _parse_text_tool_calls(resp.content)
                IN IF text_tool_calls # <<>>
                   THEN \* line 376
                        /\ full_messages' = Append(full_messages, Msg("assistant", 0, "", "content"))
                        /\ pending' = text_tool_calls
                        /\ tc_idx' = 1
                        /\ pc' = "exec"
                        /\ out' = out
                        /\ log' = log \o <<RequestEv("text")>> \o Listed(round_num, text_tool_calls)
                   ELSE \* lines 396-401
                        /\ out' = out \o FinalAnswer(resp, used_deep_analysis)
                        /\ pc' = "done"
                        /\ log' = Append(log, RequestEv("none"))
                        /\ UNCHANGED <<full_messages, pending, tc_idx>>
    /\ UNCHANGED <<regVars, rrfVars, retVars, rerankVars, lateVars>>
    /\ UNCHANGED <<has_documents, web_enabled, round_num, running, status_events,
                   used_deep_analysis>>

\* lines 377-381 and 406-413: the next call of the round is taken up; its
\* arguments are decoded (structured calls only) and _execute_tool is awaited.
ExecStart ==
    /\ pc = "exec"
    /\ MayStart(running)
    /\ tc_idx <= Len(pending)
    /\ IF IsStructured(choice) /\ ~pending[tc_idx].json_ok
       THEN \* line 408: json.loads raises, nothing catches it
            /\ pc' = "raised"
            /\ UNCHANGED <<running, tc_idx, status_events, used_deep_analysis, log>>
       ELSE /\ used_deep_analysis' =
                    (used_deep_analysis \/ pending[tc_idx].name = "deep_analysis")
            /\ status_events' = Clear(status_events)
            /\ running' = running \cup {tc_idx}
            /\ tc_idx' = tc_idx + 1
            /\ log' = Append(log, LogEv("start", round_num, tc_idx, pending[tc_idx].name))
            /\ pc' = pc
    /\ UNCHANGED <<regVars, rrfVars, retVars, rerankVars, lateVars>>
    /\ UNCHANGED <<has_documents, web_enabled, round_num, choice, pending,
                   full_messages, out, requests>>

\* lines 358-359: on_status, called by run_sub_agent while deep_analysis is
\* awaited.
on_status ==
    /\ pc = "exec"
    /\ \E i \in running : _execute_tool(pending[i].name).sub_agent
    /\ Len(status_events) < MaxStatus
    /\ status_events' = Append(status_events,
                               ToolEvent("deep_analysis", Len(status_events) + 1))
    /\ UNCHANGED <<regVars, rrfVars, retVars, rerankVars, lateVars>>
    /\ UNCHANGED <<has_documents, web_enabled, pc, round_num, choice, pending, tc_idx,
                   running, full_messages, used_deep_analysis, out, requests, log>>

\* lines 385-392 and 419-433: the message that feeds a result back.
ResultMsg(i, result) ==
    IF IsStructured(choice)
    THEN Msg("tool", CallId(round_num, i), "", result.body)
    ELSE Msg("user", 0, pending[i].name, result.body)

\* lines 381-394 and 413-433: the awaited tool returns; the collected status
\* events and the web results are yielded, the result message is appended,
\* and the loop moves to the next call, the next round or the final request.
ExecReturn ==
    /\ pc = "exec"
    /\ \E i \in running :
        LET name == pending[i].name
            result == _execute_tool(name)
            last == (tc_idx > Len(pending) /\ running = {i})
        IN \* run_sub_agent reports its first phase before anything else
           /\ result.sub_agent => status_events # <<>>
           /\ out' = out \o status_events
                     \o (IF name = "web_search" /\ result.kind = "dict"
                         THEN <<ToolEvent("web_search", CallId(round_num, i))>>
                         ELSE <<>>)
           /\ status_events' = Clear(status_events)
           /\ full_messages' = Append(full_messages, ResultMsg(i, result))
           /\ log' = log \o <<LogEv("return", round_num, i, name),
                              LogEv("append", round_num, i, name)>>
           /\ running' = running \ {i}
           /\ round_num' = IF last THEN round_num + 1 ELSE round_num
           /\ pc' = IF ~last THEN "exec" ELSE AfterRound(choice, round_num)
    /\ UNCHANGED <<regVars, rrfVars, retVars, rerankVars, lateVars>>
    /\ UNCHANGED <<has_documents, web_enabled, choice, pending, tc_idx,
                   used_deep_analysis, requests>>

\* lines 435-448: the round cap is exhausted; one streaming request without
\* tools, every non-empty delta is yielded.
FinalStream ==
    /\ pc = "final"
    /\ \E s \in Streams :
        /\ requests' = Append(requests, Request("final", FALSE, TRUE))
        /\ out' = out
             \o (IF used_deep_analysis THEN <<DoneEvent>> ELSE <<>>)
             \o StreamTokens(s)
    /\ log' = Append(log, RequestEv("stream"))
    /\ pc' = "done"
    /\ UNCHANGED <<regVars, rrfVars, retVars, rerankVars, lateVars>>
    /\ UNCHANGED <<has_documents, web_enabled, round_num, choice, pending, tc_idx,
                   running, full_messages, status_events, used_deep_analysis>>

RrfIdle ==
    /\ result_lists = <<>>
    /\ rrf_k = 0
    /\ rrf_op = "none"
    /\ merged = <<>>

\* retrieve_chunks is not running.
RetIdle ==
    /\ search_mode = "hybrid"
    /\ rag_fusion_enabled = FALSE
    /\ rerank_enabled = FALSE
    /\ rag_fusion_query_count = 0
    /\ top_k = 0
    /\ ret_pc = "idle"
    /\ expansion = <<>>
    /\ all_queries = <<>>
    /\ searches = <<>>
    /\ per_query_results = <<>>
    /\ ret_results = <<>>
    /\ rerank_calls = <<>>
    /\ returned = <<>>
    /\ score_writes = {}

\* rerank_chunks is not being called on its own.
RerankIdle ==
    /\ rr_chunks = <<>>
    /\ rr_top_n = 0
    /\ rr_ret = <<>>

\* No chat request is being handled.
TurnIdle ==
    /\ turn_pc = "idle"
    /\ messages_table = <<>>
    /\ history_len = 0
    /\ stream_events = <<>>
    /\ stream_end = "return"
    /\ full_content = 0
    /\ sse_out = <<>>
    /\ thread_title = "untitled"

\* run_sub_agent is not running.
SubIdle ==
    /\ sub_pc = "idle"
    /\ sub_round = 0
    /\ sub_choice = NoChoice
    /\ sub_idx = 1
    /\ sub_requests = <<>>
    /\ sub_executed = {}
    /\ sub_refused = {}
    /\ sub_status = {}
    /\ sub_ret = "none"

\* _parse_text_tool_calls is not being called on its own.
ParseIdle ==
    /\ parse_pc = "idle"
    /\ parse_content = <<>>
    /\ parse_ret = <<>>

\* manage_tags is not running.
TagIdle ==
    /\ tag_pc = "idle"
    /\ tag_args = <<>>
    /\ tag_env = <<>>
    /\ tag_rpcs = <<>>
    /\ tag_selects = 0
    /\ tag_result = "none"

\* ingest_document is not running.
IngestIdle ==
    /\ ing_pc = "idle"
    /\ doc_exists = FALSE
    /\ doc_status = "none"
    /\ status_writes = <<>>
    /\ text_empty = FALSE
    /\ n_chunks = 0
    /\ n_embedded = 0
    /\ chunks_inserted = 0

\* The parts specified further down are not running.
LateIdle ==
    TurnIdle /\ SubIdle /\ ParseIdle /\ TagIdle /\ IngestIdle

Next ==
    \/ StreamDirect
    \/ EnterLoop
    \/ RequestCompletion
    \/ ExecStart
    \/ on_status
    \/ ExecReturn
    \/ FinalStream

\* The loop is not running (specifications of the other parts).
ChatIdle ==
    /\ has_documents = FALSE
    /\ web_enabled = FALSE
    /\ pc = "idle"
    /\ round_num = 0
    /\ choice = NoChoice
    /\ pending = <<>>
    /\ tc_idx = 1
    /\ running = {}
    /\ full_messages = <<>>
    /\ status_events = <<>>
    /\ used_deep_analysis = FALSE
    /\ out = <<>>
    /\ requests = <<>>
    /\ log = <<>>

\* ------------------------------------------------------------------------
\* Tool registry: execute_tool (app/tools/_registry.py)
\* ------------------------------------------------------------------------
\* Names a tool module may register, and names a caller may ask for.
PluginNames == {"web_search", "manage_tags", "graph_search"}
AskedNames == PluginNames \cup {"nonexistent"}

\* What a registered handler may do when awaited.
HandlerOutcomes == {"str", "dict", "raise"}

\* Variant: the lookup is _plugins[name], which raises KeyError.
execute_tool_subscript(registry, name, handler_outcome) ==
    IF name \notin registry
    THEN [name |-> name, outcome |-> "raised", result |-> <<"KeyError">>,
          handler |-> FALSE, before |-> registry, after |-> registry]
    ELSE [name |-> name,
          outcome |-> IF handler_outcome = "raise" THEN "raised" ELSE "returned",
          result |-> <<handler_outcome>>,
          handler |-> TRUE, before |-> registry, after |-> registry]

\* execute_tool: plugin = _plugins.get(name); without a plugin the f-string
\* "Unknown tool: {name}" is returned, otherwise the handler is awaited and
\* whatever it returns or raises is passed on.  A string is the sequence of
\* its literal and interpolated pieces.
execute_tool(registry, name, handler_outcome) ==
    IF name \notin registry
    THEN [name |-> name, outcome |-> "returned", result |-> <<"Unknown tool: ", name>>,
          handler |-> FALSE, before |-> registry, after |-> registry]
    ELSE [name |-> name,
          outcome |-> IF handler_outcome = "raise" THEN "raised" ELSE "returned",
          result |-> <<handler_outcome>>,
          handler |-> TRUE, before |-> registry, after |-> registry]

\* _discover has run: some of the tool modules registered their plugin.
RegInit ==
    /\ plugins \in SUBSET PluginNames
    /\ reg_calls = <<>>
    /\ handler_calls = <<>>

RegIdle ==
    /\ plugins = {}
    /\ reg_calls = <<>>
    /\ handler_calls = <<>>

\* One call of execute_tool by the loop.
ExecuteTool ==
    /\ Len(reg_calls) < MaxRegCalls
    /\ \E name \in AskedNames, ho \in HandlerOutcomes :
        LET call == execute_tool(plugins, name, ho)
        IN /\ (~call.handler) => ho = "str"
           /\ reg_calls' = Append(reg_calls, call)
           /\ handler_calls' = IF call.handler THEN Append(handler_calls, name)
                               ELSE handler_calls
           /\ plugins' = call.after
    /\ UNCHANGED <<chatVars, rrfVars, retVars, rerankVars, lateVars>>

RegNext == ExecuteTool

RegSpecInit == ChatIdle /\ RegInit /\ RrfIdle /\ RetIdle /\ RerankIdle /\ LateIdle

RegSpec == RegSpecInit /\ [][RegNext]_vars

\* ------------------------------------------------------------------------
\* reciprocal_rank_fusion (app/services/retrieval.py)
\* ------------------------------------------------------------------------
\* A chunk id is a Python value: its type and its printed form.  The store
\* may hand out the same row id as an int in one list and as a str in another.
IntId(digits) == [t |-> "int", v |-> digits]
StrId(chars) == [t |-> "str", v |-> chars]
Ids == {StrId("a"), StrId("b"), StrId("c"), StrId("1"), IntId("1")}

\* Variant: the id itself is used as the dictionary key.
StrKeepsType(id) == id

\* str(chunk["id"]): the str whose characters are the printed form.
Str(id) == StrId(id.v)

\* The values of k the settings may hold (rrf_k, default 60).
RrfKs == {1, 60}

\* Scores are exact rationals with the common denominator Denom(k), the
\* product of the divisors k + rank + 1 of all ranks of a list; a score is
\* held as its numerator.
RECURSIVE Denom(_, _)
Denom(k, n) == IF n = 0 THEN 1 ELSE (k + n) * Denom(k, n - 1)

Unit(k) == Denom(k, MaxLen)

\* Variant: the rank is taken as 1-based already (1 / (k + rank)).
ContributionNoShift(k, rank) == Unit(k) \div (k + rank)

\* line 68: 1.0 / (k + rank + 1)
Contribution(k, rank) == Unit(k) \div (k + rank + 1)

\* Variant: the score is assigned instead of accumulated.
AddScoreOverwrites(scores, chunk_id, k, rank) == Contribution(k, rank)

\* line 68: scores.get(chunk_id, 0.0) + 1.0 / (k + rank + 1)
AddScore(scores, chunk_id, k, rank) ==
    (IF chunk_id \in DOMAIN scores THEN scores[chunk_id] ELSE 0) + Contribution(k, rank)

\* A dict is a function together with the insertion order of its keys.
EmptyDicts == [order |-> <<>>, scores |-> <<>>, chunk_map |-> <<>>]

\* lines 66-70: one iteration of the inner loop.
Visit(d, chunk, k, rank) ==
    LET chunk_id == Str(chunk.id)
        seen == chunk_id \in DOMAIN d.scores
    IN [order |-> IF seen THEN d.order ELSE Append(d.order, chunk_id),
        scores |-> (chunk_id :> AddScore(d.scores, chunk_id, k, rank)) @@ d.scores,
        chunk_map |-> IF seen THEN d.chunk_map ELSE (chunk_id :> chunk) @@ d.chunk_map]

\* lines 66-70: the inner loop over one list, from 0-based rank `rank` on.
RECURSIVE VisitList(_, _, _, _)
VisitList(d, results, k, rank) ==
    IF rank >= Len(results) THEN d
    ELSE VisitList(Visit(d, results[rank + 1], k, rank), results, k, rank + 1)

\* lines 65-70: the outer loop over the lists.
RECURSIVE VisitLists(_, _, _)
VisitLists(d, lists, k) ==
    IF lists = <<>> THEN d
    ELSE VisitLists(VisitList(d, Head(lists), k, 0), Tail(lists), k)

\* Variant: ascending order (reverse=True forgotten).
StaysBeforeAscending(x, y) == x.rrf_score <= y.rrf_score

\* line 79: in the stable descending sort an element x stays in front of a
\* later element y unless y scores strictly higher.
StaysBefore(x, y) == x.rrf_score >= y.rrf_score

\* Insert y, which came after every element of sorted, at its place.
RECURSIVE InsertStable(_, _)
InsertStable(sorted, y) ==
    IF sorted = <<>> THEN <<y>>
    ELSE IF StaysBefore(Head(sorted), y)
         THEN <<Head(sorted)>> \o InsertStable(Tail(sorted), y)
         ELSE <<y>> \o sorted

RECURSIVE SortStable(_, _)
SortStable(sorted, rest) ==
    IF rest = <<>> THEN sorted
    ELSE SortStable(InsertStable(sorted, Head(rest)), Tail(rest))

\* lines 62-80
reciprocal_rank_fusion(lists, k) ==
    LET d == VisitLists(EmptyDicts, lists, k)
        unsorted == [i \in 1..Len(d.order) |->
                        [id |-> d.chunk_map[d.order[i]].id,
                         src |-> d.chunk_map[d.order[i]].src,
                         rrf_score |-> d.scores[d.order[i]]]]
    IN SortStable(<<>>, unsorted)

\* A ranked list as a search returns it: rows of distinct chunks.  src tells
\* which search produced the row.
IdLists ==
    {l \in UNION {[1..n -> Ids] : n \in 0..MaxLen} :
        \A i, j \in 1..Len(l) : Str(l[i]) = Str(l[j]) => i = j}

Rows(idlist, src) == [i \in 1..Len(idlist) |-> [id |-> idlist[i], src |-> src]]

RrfInit ==
    /\ \E a, b \in IdLists : result_lists = <<Rows(a, "A"), Rows(b, "B")>>
    /\ rrf_k \in RrfKs
    /\ rrf_op = "none"
    /\ merged = <<>>

A == result_lists[1]
B == result_lists[2]

FuseAB ==
    /\ rrf_op = "none"
    /\ rrf_op' = "AB"
    /\ merged' = reciprocal_rank_fusion(<<A, B>>, rrf_k)
    /\ UNCHANGED <<result_lists, rrf_k, chatVars, regVars, retVars, rerankVars, lateVars>>

FuseBA ==
    /\ rrf_op = "none"
    /\ rrf_op' = "BA"
    /\ merged' = reciprocal_rank_fusion(<<B, A>>, rrf_k)
    /\ UNCHANGED <<result_lists, rrf_k, chatVars, regVars, retVars, rerankVars, lateVars>>

FuseSingle ==
    /\ rrf_op = "none"
    /\ rrf_op' = "A"
    /\ merged' = reciprocal_rank_fusion(<<A>>, rrf_k)
    /\ UNCHANGED <<result_lists, rrf_k, chatVars, regVars, retVars, rerankVars, lateVars>>

FuseSelf ==
    /\ rrf_op = "none"
    /\ rrf_op' = "AA"
    /\ merged' = reciprocal_rank_fusion(<<A, A>>, rrf_k)
    /\ UNCHANGED <<result_lists, rrf_k, chatVars, regVars, retVars, rerankVars, lateVars>>

RrfNext == FuseAB \/ FuseBA \/ FuseSingle \/ FuseSelf

RrfSpecInit == ChatIdle /\ RegIdle /\ RrfInit /\ RetIdle /\ RerankIdle /\ LateIdle

RrfSpec == RrfSpecInit /\ [][RrfNext]_vars

\* ------------------------------------------------------------------------
\* rerank_chunks (app/services/reranker.py)
\* ------------------------------------------------------------------------
\* settings.rerank_top_n
rerank_top_n == 5

\* s[:n] for n >= 0
Take(s, n) == SubSeq(s, 1, IF n < Len(s) THEN n ELSE Len(s))

\* The chunks of the document store.
Corpus == <<StrId("a"), StrId("b"), StrId("c")>>

\* Relevance scores in tenths, in the range the prompt asks for: 0.0, 0.5, 1.0.
ScoreValues == {0, 5, 10}

\* The ids a model may rank: the ids shown to it and one it made up.
RankedIds == {Str(Corpus[i]) : i \in 1..Len(Corpus)} \cup {StrId("z")}

\* What the chat completion of the reranker may do: raise, answer with text
\* that is not JSON, answer with JSON of another shape, or answer with
\* rankings (chunk_id -> relevance_score; a dict built from a list keeps
\* the last score of a repeated id).
RerankModelsOver(ids, values) ==
    {[kind |-> f, rankings |-> <<>>] : f \in {"raise", "bad_json", "bad_schema"}}
    \cup {[kind |-> "ok", rankings |-> m] :
            m \in UNION {[ks -> values] : ks \in SUBSET ids}}

RerankModels == RerankModelsOver(RankedIds, ScoreValues)

\* line 46: top_n or settings.rerank_top_n
OrDefault(top_n, default) == IF top_n = 0 THEN default ELSE top_n

\* Variant: a chunk the model omitted is given the best score.
ScoreOfDefaultOne(score_map, chunk_id) ==
    IF chunk_id \in DOMAIN score_map THEN score_map[chunk_id] ELSE 10

\* line 71: score_map.get(str(c["id"]), 0.0)
ScoreOf(score_map, chunk_id) ==
    IF chunk_id \in DOMAIN score_map THEN score_map[chunk_id] ELSE 0

\* line 71: c["rerank_score"] = ...
WithRerankScore(c, score) ==
    IF "rrf_score" \in DOMAIN c
    THEN [id |-> c.id, src |-> c.src, rrf_score |-> c.rrf_score, rerank_score |-> score]
    ELSE [id |-> c.id, src |-> c.src, rerank_score |-> score]

\* line 73: in the stable descending sort x stays in front of a later y
\* unless y scores strictly higher.
RerankStaysBefore(x, y) == x.rerank_score >= y.rerank_score

RECURSIVE InsertByRerank(_, _)
InsertByRerank(sorted, y) ==
    IF sorted = <<>> THEN <<y>>
    ELSE IF RerankStaysBefore(Head(sorted), y)
         THEN <<Head(sorted)>> \o InsertByRerank(Tail(sorted), y)
         ELSE <<y>> \o sorted

RECURSIVE SortByRerank(_, _)
SortByRerank(sorted, rest) ==
    IF rest = <<>> THEN sorted
    ELSE SortByRerank(InsertByRerank(sorted, Head(rest)), Tail(rest))

\* lines 36-78.  called: the chat completion was requested; ranking: the
\* chunk list after line 73; ret: the return value.
rerank_chunks(query, chunks, top_n, model) ==
    LET n == OrDefault(top_n, rerank_top_n)
    IN IF chunks = <<>>
       THEN [query |-> query, chunks |-> chunks, top_n |-> top_n, model |-> model,
             called |-> FALSE, ranking |-> <<>>, ret |-> <<>>]
       ELSE IF model.kind # "ok"
       THEN [query |-> query, chunks |-> chunks, top_n |-> top_n, model |-> model,
             called |-> TRUE, ranking |-> chunks, ret |-> Take(chunks, n)]
       ELSE LET scored == [i \in 1..Len(chunks) |->
                              WithRerankScore(chunks[i],
                                              ScoreOf(model.rankings, Str(chunks[i].id)))]
                sorted == SortByRerank(<<>>, scored)
            IN [query |-> query, chunks |-> chunks, top_n |-> top_n, model |-> model,
                called |-> TRUE, ranking |-> sorted, ret |-> Take(sorted, n)]

\* The original query text.
query == "q"

\* Candidate lists: rows of distinct chunks of the corpus.
CandidateLists ==
    {l \in UNION {[1..n -> {Corpus[i] : i \in 1..Len(Corpus)}] : n \in 0..Len(Corpus)} :
        \A i, j \in 1..Len(l) : l[i] = l[j] => i = j}

RerankInit ==
    /\ \E l \in CandidateLists : rr_chunks = Rows(l, "store")
    /\ rr_top_n \in 0..MaxTopK
    /\ rr_ret = <<>>

\* One call rerank_chunks(query, rr_chunks, rr_top_n).
RerankCall ==
    /\ rr_ret = <<>>
    /\ \E model \in RerankModels :
          rr_ret' = <<rerank_chunks(query, rr_chunks, rr_top_n, model)>>
    /\ UNCHANGED <<rr_chunks, rr_top_n, chatVars, regVars, rrfVars, retVars, lateVars>>

RerankNext == RerankCall

RerankSpecInit == ChatIdle /\ RegIdle /\ RrfIdle /\ RetIdle /\ RerankInit /\ LateIdle

RerankSpec == RerankSpecInit /\ [][RerankNext]_vars

\* ------------------------------------------------------------------------
\* generate_sub_queries (app/services/query_expansion.py)
\* ------------------------------------------------------------------------
\* The strings a model may return as alternatives: new phrasings, or the
\* original query again.
RECURSIVE Phrasings(_, _)
Phrasings(first, n) ==
    IF n = 0 THEN <<>> ELSE <<first>> \o Phrasings("v", n - 1)

\* What the chat completion of the expansion may do: raise, answer with
\* text that is not JSON, answer with JSON of another shape, or answer with
\* a list of strings (of any length, whatever count was asked for).
ExpansionModels ==
    {[kind |-> f, queries |-> <<>>] : f \in {"raise", "bad_json", "bad_schema"}}
    \cup {[kind |-> "ok", queries |-> Phrasings(first, n)] :
            first \in {"v", query}, n \in 0..(MaxCount + 1)}

\* Variant: the model's list is returned whole.
generate_sub_queries_whole(q, count, model) ==
    IF model.kind = "ok" THEN model.queries ELSE <<>>

\* Variant: the fallback hands back the original query.
generate_sub_queries_fallback_original(q, count, model) ==
    IF model.kind = "ok" THEN Take(model.queries, count) ELSE <<q>>

\* lines 28-46: result.queries[:count], or [] on any exception.
generate_sub_queries(q, count, model) ==
    IF model.kind = "ok" THEN Take(model.queries, count) ELSE <<>>

\* ------------------------------------------------------------------------
\* retrieve_chunks (app/services/retrieval.py)
\* ------------------------------------------------------------------------
SearchModes == {"semantic", "keyword", "hybrid"}

\* settings.rrf_k
RetrievalK == 60

\* The searches _retrieve_one(q) awaits in each mode (lines 105-119).
KindsOf(mode) == IF mode = "hybrid" THEN {"semantic", "keyword"} ELSE {mode}

\* The search tasks of a call with n queries.
Tasks(n, mode) == {<<i, kind>> : i \in 1..n, kind \in KindsOf(mode)}

\* The rows a search of the i-th query finds when the store has matches:
\* two chunks, the semantic and the keyword search sharing one of them.
Hits(i, kind) ==
    LET at(j) == Corpus[(j % Len(Corpus)) + 1]
    IN IF kind = "semantic" THEN Rows(<<at(i), at(i + 1)>>, "semantic")
       ELSE Rows(<<at(i + 1), at(i + 2)>>, "keyword")

Pending == [st |-> "pending", rows |-> <<>>]

States(tasks) == {tasks[t].st : t \in DOMAIN tasks}

\* Variant: the awaiting coroutine goes on when the first task is done.
GatheredFirstCompleted(states) == "done" \in states

\* asyncio.gather (lines 113, 122): the awaiting coroutine goes on when
\* every task of the group has returned.
Gathered(states) == states \subseteq {"done"}

\* Variant: an empty merged list is reranked too.
ShouldRerankWhenEnabled(enabled, res) == enabled

\* Variant: the settings are not consulted.
ShouldRerankAlways(enabled, res) == TRUE

\* line 130: settings.rerank_enabled and results
ShouldRerank(enabled, res) == enabled /\ res # <<>>

\* The dict behind a row: every search returns fresh dicts, so a dict is
\* told by the query and the search that returned it and by its id.
DictOf(i, row) == <<i, row.src, row.id>>

\* lines 69-70: chunk_map keeps, for an id, the dict of the first list
\* that holds it.
FirstHolder(lists, id) ==
    CHOOSE n \in 1..Len(lists) :
        /\ \E j \in 1..Len(lists[n]) : Str(lists[n][j].id) = Str(id)
        /\ \A m \in 1..(n - 1) : \A j \in 1..Len(lists[m]) : Str(lists[m][j].id) # Str(id)

\* The dicts the merged list is made of (lines 124-127).
MergedDicts(res) ==
    {DictOf(FirstHolder([i \in 1..Len(per_query_results) |-> per_query_results[i].rows],
                        res[j].id), res[j]) : j \in 1..Len(res)}

\* lines 76 and reranker.py:71: the field is assigned once on each dict of
\* the list the writer goes through.
ScoreWrites(field, by, dicts) == {[field |-> field, dict |-> d, by |-> by] : d \in dicts}

RetInit ==
    /\ search_mode \in SearchModes
    /\ rag_fusion_enabled \in BOOLEAN
    /\ rerank_enabled \in BOOLEAN
    /\ rag_fusion_query_count \in 0..MaxCount
    /\ top_k \in 0..MaxTopK
    /\ ret_pc = "start"
    /\ expansion = <<>>
    /\ all_queries = <<>>
    /\ searches = <<>>
    /\ per_query_results = <<>>
    /\ ret_results = <<>>
    /\ rerank_calls = <<>>
    /\ returned = <<>>
    /\ score_writes = {}

\* lines 98-102 and the creation of the tasks by the gathers (113, 122).
BuildQueries ==
    /\ ret_pc = "start"
    /\ \E model \in ExpansionModels :
          LET sub_queries == generate_sub_queries(query, rag_fusion_query_count, model)
          IN IF rag_fusion_enabled
             THEN /\ expansion' = <<[query |-> query, count |-> rag_fusion_query_count,
                                     model |-> model, ret |-> sub_queries]>>
                  /\ all_queries' = <<query>> \o sub_queries
             ELSE /\ model = [kind |-> "raise", queries |-> <<>>]
                  /\ expansion' = <<>>
                  /\ all_queries' = <<query>>
    /\ searches' = [t \in Tasks(Len(all_queries'), search_mode) |-> Pending]
    /\ per_query_results' = [i \in 1..Len(all_queries') |-> Pending]
    /\ ret_pc' = "searching"
    /\ UNCHANGED <<retCfg, ret_results, rerank_calls, returned, score_writes>>
    /\ UNCHANGED <<chatVars, regVars, rrfVars, rerankVars, lateVars>>

\* _semantic_search / _keyword_search return (lines 32, 51).  A task goes
\* on after another one has failed: gather does not cancel its siblings.
SearchReturns ==
    /\ ret_pc \in {"searching", "raised"}
    /\ \E t \in DOMAIN searches :
          /\ searches[t].st = "pending"
          /\ \E rows \in {<<>>, Hits(t[1], t[2])} :
                searches' = [searches EXCEPT ![t] = [st |-> "done", rows |-> rows]]
    /\ UNCHANGED <<retCfg, ret_pc, expansion, all_queries, per_query_results,
                   ret_results, rerank_calls, returned, score_writes>>
    /\ UNCHANGED <<chatVars, regVars, rrfVars, rerankVars, lateVars>>

\* A search raises; the exception passes through the gathers and out of
\* retrieve_chunks.
SearchRaises ==
    /\ ret_pc \in {"searching", "raised"}
    /\ \E t \in DOMAIN searches :
          /\ searches[t].st = "pending"
          /\ searches' = [searches EXCEPT ![t] = [st |-> "failed", rows |-> <<>>]]
    /\ ret_pc' = "raised"
    /\ UNCHANGED <<retCfg, expansion, all_queries, per_query_results,
                   ret_results, rerank_calls, returned, score_writes>>
    /\ UNCHANGED <<chatVars, regVars, rrfVars, rerankVars, lateVars>>

\* _retrieve_one(q) returns (lines 105-120).
RetrieveOneReturns ==
    /\ ret_pc \in {"searching", "raised"}
    /\ \E i \in DOMAIN per_query_results :
          /\ per_query_results[i].st = "pending"
          /\ Gathered({searches[t].st : t \in Tasks(Len(all_queries), search_mode) \cap
                                            ({i} \X KindsOf(search_mode))})
          /\ per_query_results' = [per_query_results EXCEPT ![i] =
                [st |-> "done",
                 rows |-> IF search_mode = "hybrid"
                          THEN reciprocal_rank_fusion(
                                   <<searches[<<i, "semantic">>].rows,
                                     searches[<<i, "keyword">>].rows>>, RetrievalK)
                          ELSE searches[<<i, search_mode>>].rows]]
          /\ score_writes' = score_writes \cup
                IF search_mode = "hybrid"
                THEN ScoreWrites("rrf_score", "per_query_fusion",
                                 {DictOf(i, per_query_results'[i].rows[j]) :
                                    j \in 1..Len(per_query_results'[i].rows)})
                ELSE {}
    /\ UNCHANGED <<retCfg, ret_pc, expansion, all_queries, searches,
                   ret_results, rerank_calls, returned>>
    /\ UNCHANGED <<chatVars, regVars, rrfVars, rerankVars, lateVars>>

\* lines 122-127: the outer gather returns and the results are merged.
MergeResults ==
    /\ ret_pc = "searching"
    /\ Gathered(States(per_query_results))
    /\ ret_results' = IF Len(per_query_results) = 1
                      THEN per_query_results[1].rows
                      ELSE reciprocal_rank_fusion(
                               [i \in 1..Len(per_query_results) |-> per_query_results[i].rows],
                               RetrievalK)
    /\ score_writes' = score_writes \cup
          IF Len(per_query_results) = 1 THEN {}
          ELSE ScoreWrites("rrf_score", "cross_query_fusion", MergedDicts(ret_results'))
    /\ ret_pc' = "merged"
    /\ UNCHANGED <<retCfg, expansion, all_queries, searches, per_query_results,
                   rerank_calls, returned>>
    /\ UNCHANGED <<chatVars, regVars, rrfVars, rerankVars, lateVars>>

\* lines 130-135
RerankOrTruncate ==
    /\ ret_pc = "merged"
    /\ IF ShouldRerank(rerank_enabled, ret_results)
       THEN \E model \in RerankModelsOver({Str(ret_results[i].id) :
                                                i \in 1..Len(ret_results)}, {0, 10}) :
               LET call == rerank_chunks(query, ret_results, top_k, model)
               IN /\ rerank_calls' = Append(rerank_calls, call)
                  /\ returned' = call.ret
                  /\ score_writes' = score_writes \cup
                        IF model.kind = "ok"
                        THEN ScoreWrites("rerank_score", "rerank", MergedDicts(ret_results))
                        ELSE {}
       ELSE /\ returned' = Take(ret_results, top_k)
            /\ UNCHANGED <<rerank_calls, score_writes>>
    /\ ret_pc' = "done"
    /\ UNCHANGED <<retCfg, expansion, all_queries, searches, per_query_results, ret_results>>
    /\ UNCHANGED <<chatVars, regVars, rrfVars, rerankVars, lateVars>>

RetNext ==
    \/ BuildQueries
    \/ SearchReturns
    \/ SearchRaises
    \/ RetrieveOneReturns
    \/ MergeResults
    \/ RerankOrTruncate

RetSpecInit == ChatIdle /\ RegIdle /\ RrfIdle /\ RetInit /\ RerankIdle /\ LateIdle

RetSpec == RetSpecInit /\ [][RetNext]_vars

\* ------------------------------------------------------------------------
\* chat and event_generator (app/routers/chat.py)
\* ------------------------------------------------------------------------
\* The events stream_chat_completion may yield to event_generator: a text
\* token, a web_search ToolEvent, a deep_analysis ToolEvent.
EventKinds == {"token", "web_search", "deep_analysis"}

EventStreams == UNION {[1..n -> EventKinds] : n \in 0..MaxEvents}

\* The rows of the thread before the turn: a new thread, or one exchange.
Histories == {<<>>, <<[role |-> "user", content |-> 0], [role |-> "assistant", content |-> 0]>>}

\* Variant: the assistant message is saved in a finally clause, whenever
\* the loop is left.
LoopLeftAnyhow(events_left, ending) == TRUE

\* lines 83-99: the async for loop is left normally, the stream being
\* exhausted without an exception.
LoopLeft(events_left, ending) == events_left = <<>> /\ ending = "return"

TurnInit ==
    /\ turn_pc = "start"
    /\ messages_table \in Histories
    /\ history_len = Len(messages_table)
    /\ stream_events \in EventStreams
    /\ stream_end \in {"return", "raise"}
    /\ full_content = 0
    /\ sse_out = <<>>
    /\ thread_title = "untitled"

\* lines 31-41: the user message is inserted before anything else.
SaveUserMessage ==
    /\ turn_pc = "start"
    /\ messages_table' = Append(messages_table, [role |-> "user", content |-> 1])
    /\ turn_pc' = "streaming"
    /\ UNCHANGED <<history_len, stream_events, stream_end, full_content, sse_out, thread_title>>
    /\ UNCHANGED <<coreVars, subVars, parseVars, tagVars, ingestVars>>

\* lines 83-97: one event of the stream is forwarded to the client.
ForwardEvent ==
    /\ turn_pc = "streaming"
    /\ stream_events # <<>>
    /\ full_content' = full_content + (IF Head(stream_events) = "token" THEN 1 ELSE 0)
    /\ sse_out' = Append(sse_out, Head(stream_events))
    /\ stream_events' = Tail(stream_events)
    /\ UNCHANGED <<turn_pc, messages_table, history_len, stream_end, thread_title>>
    /\ UNCHANGED <<coreVars, subVars, parseVars, tagVars, ingestVars>>

\* stream_chat_completion raises; the exception leaves event_generator.
StreamRaises ==
    /\ turn_pc = "streaming"
    /\ stream_events = <<>>
    /\ stream_end = "raise"
    /\ turn_pc' = "failed"
    /\ UNCHANGED <<messages_table, history_len, stream_events, stream_end, full_content,
                   sse_out, thread_title>>
    /\ UNCHANGED <<coreVars, subVars, parseVars, tagVars, ingestVars>>

\* The client disconnects: the generator is cancelled where it is suspended,
\* in the loop (lines 83-97) or in the title request (line 125).
Disconnect ==
    /\ turn_pc \in {"streaming", "titling"}
    /\ turn_pc' = IF turn_pc = "streaming" THEN "cancelled" ELSE "cancelled_late"
    /\ UNCHANGED <<messages_table, history_len, stream_events, stream_end, full_content,
                   sse_out, thread_title>>
    /\ UNCHANGED <<coreVars, subVars, parseVars, tagVars, ingestVars>>

\* lines 99-124: the assistant message is inserted after the loop.
SaveAssistantMessage ==
    /\ turn_pc = "streaming"
    /\ LoopLeft(stream_events, stream_end)
    /\ messages_table' = Append(messages_table,
                                [role |-> "assistant", content |-> full_content])
    /\ turn_pc' = IF Len(messages_table') = 2 THEN "titling" ELSE "saved"
    /\ UNCHANGED <<history_len, stream_events, stream_end, full_content, sse_out, thread_title>>
    /\ UNCHANGED <<coreVars, subVars, parseVars, tagVars, ingestVars>>

\* lines 125-139: the title request returns and the thread is renamed.
TitleReturns ==
    /\ turn_pc = "titling"
    /\ thread_title' = "titled"
    /\ turn_pc' = "saved"
    /\ UNCHANGED <<messages_table, history_len, stream_events, stream_end, full_content, sse_out>>
    /\ UNCHANGED <<coreVars, subVars, parseVars, tagVars, ingestVars>>

\* lines 141-144: the final event.
FinalEvent ==
    /\ turn_pc = "saved"
    /\ sse_out' = Append(sse_out, "done")
    /\ turn_pc' = "done"
    /\ UNCHANGED <<messages_table, history_len, stream_events, stream_end, full_content,
                   thread_title>>
    /\ UNCHANGED <<coreVars, subVars, parseVars, tagVars, ingestVars>>

TurnNext ==
    \/ SaveUserMessage
    \/ ForwardEvent
    \/ StreamRaises
    \/ Disconnect
    \/ SaveAssistantMessage
    \/ TitleReturns
    \/ FinalEvent

TurnSpecInit ==
    ChatIdle /\ RegIdle /\ RrfIdle /\ RetIdle /\ RerankIdle /\ TurnInit
    /\ SubIdle /\ ParseIdle /\ TagIdle /\ IngestIdle

TurnSpec == TurnSpecInit /\ [][TurnNext]_vars

\* ------------------------------------------------------------------------
\* run_sub_agent (app/services/sub_agent.py)
\* ------------------------------------------------------------------------
_ALLOWED_TOOLS == {"retrieve_documents", "query_documents_metadata"}

STATUS_MESSAGES ==
    <<"Analyzing documents...", "Retrieving more context...", "Deepening analysis...",
      "Gathering additional details...", "Synthesizing findings...">>

MAX_SUB_AGENT_ROUNDS == 5

\* Names the model stub draws the sub-agent's calls from, cyclically.
SubCallNames == <<"retrieve_documents", "web_search", "query_documents_metadata">>

SubNameAt(start, i) == SubCallNames[((start + i) % Len(SubCallNames)) + 1]

\* The completions the model stub may return to the sub-agent: structured
\* calls (the bad-th one with malformed arguments), text-encoded calls,
\* plain or empty content, and a tool_calls finish with no call.
SubResponses ==
    {[finish_reason |-> "tool_calls",
      tool_calls |-> [i \in 1..n |-> [name |-> SubNameAt(s, i), json_ok |-> (i # b)]],
      content |-> <<>>] : s \in 0..2, n \in 1..MaxSubCalls, b \in 0..1}
    \cup {[finish_reason |-> "stop", tool_calls |-> <<>>,
           content |-> <<TextSeg>> \o [i \in 1..n |-> FuncSeg(SubNameAt(s, i))]] :
             s \in 0..2, n \in 1..MaxSubCalls}
    \cup {[finish_reason |-> "stop", tool_calls |-> <<>>, content |-> c] :
             c \in {<<>>, <<TextSeg>>}}
    \cup {[finish_reason |-> "tool_calls", tool_calls |-> <<>>, content |-> <<TextSeg>>]}

\* Variant: the allowlist test lets every name through.
IsAllowedAny(name) == TRUE

\* lines 81-82 and 175: name in _ALLOWED_TOOLS
IsAllowed(name) == name \in _ALLOWED_TOOLS

\* lines 76-94: the <function=...> blocks of the content whose name is on
\* the allowlist, in text order, or None (modelled as <<>>).
RECURSIVE _parse_sub_agent_tool_calls(_)
_parse_sub_agent_tool_calls(content) ==
    IF content = <<>> THEN <<>>
    ELSE LET rest == _parse_sub_agent_tool_calls(Tail(content))
         IN IF Head(content).seg = "function" /\ IsAllowed(Head(content).name)
            THEN <<Head(content).name>> \o rest
            ELSE rest

\* lines 163-165 and 192-194: the label of a tool round.
StatusOfRound(r) ==
    STATUS_MESSAGES[(IF r + 1 < Len(STATUS_MESSAGES) - 1 THEN r + 1
                     ELSE Len(STATUS_MESSAGES) - 1) + 1]

\* line 142: the next iteration of the for loop, or the code after it.
AfterSubRound(r) == IF r + 1 < MAX_SUB_AGENT_ROUNDS THEN "request" ELSE "final"

SubInit ==
    /\ sub_pc = "start"
    /\ sub_round = 0
    /\ sub_choice = NoChoice
    /\ sub_idx = 1
    /\ sub_requests = <<>>
    /\ sub_executed = {}
    /\ sub_refused = {}
    /\ sub_status = {}
    /\ sub_ret = "none"

\* lines 130-140: the messages are built and the first label is reported.
SubStart ==
    /\ sub_pc = "start"
    /\ sub_status' = sub_status \cup {STATUS_MESSAGES[1]}
    /\ sub_pc' = "request"
    /\ UNCHANGED <<sub_round, sub_choice, sub_idx, sub_requests, sub_executed,
                   sub_refused, sub_ret>>
    /\ UNCHANGED <<coreVars, turnVars, parseVars, tagVars, ingestVars>>

\* lines 143-169: one tool-offering completion; without structured calls
\* the text-encoded calls are run, or the content is returned.
SubRequest ==
    /\ sub_pc = "request"
    /\ \E resp \in SubResponses :
          /\ sub_choice' = resp
          /\ sub_requests' = Append(sub_requests, "tools")
          /\ IF resp.finish_reason # "tool_calls" \/ resp.tool_calls = <<>>
             THEN LET text_tool_calls == _parse_sub_agent_tool_calls(resp.content)
                  IN IF text_tool_calls # <<>>
                     THEN /\ sub_executed' = sub_executed \cup
                                {text_tool_calls[i] : i \in 1..Len(text_tool_calls)}
                          /\ sub_status' = sub_status \cup {StatusOfRound(sub_round)}
                          /\ sub_round' = sub_round + 1
                          /\ sub_pc' = AfterSubRound(sub_round)
                          /\ UNCHANGED <<sub_idx, sub_ret>>
                     ELSE /\ sub_ret' = "content"
                          /\ sub_pc' = "done"
                          /\ UNCHANGED <<sub_idx, sub_executed, sub_status, sub_round>>
             ELSE /\ sub_idx' = 1
                  /\ sub_pc' = "dispatch"
                  /\ UNCHANGED <<sub_executed, sub_status, sub_round, sub_ret>>
    /\ UNCHANGED sub_refused
    /\ UNCHANGED <<coreVars, turnVars, parseVars, tagVars, ingestVars>>

\* lines 173-190: one structured tool call: refused when its name is not on
\* the allowlist; otherwise its arguments are decoded (which raises when
\* they are malformed) and the tool is run.
SubToolCall ==
    /\ sub_pc = "dispatch"
    /\ sub_idx <= Len(sub_choice.tool_calls)
    /\ LET tool_call == sub_choice.tool_calls[sub_idx]
       IN IF ~IsAllowed(tool_call.name)
          THEN /\ sub_refused' = sub_refused \cup {tool_call.name}
               /\ sub_idx' = sub_idx + 1
               /\ UNCHANGED <<sub_pc, sub_executed>>
          ELSE IF ~tool_call.json_ok
          THEN /\ sub_pc' = "raised"
               /\ UNCHANGED <<sub_idx, sub_executed, sub_refused>>
          ELSE /\ sub_executed' = sub_executed \cup {tool_call.name}
               /\ sub_idx' = sub_idx + 1
               /\ UNCHANGED <<sub_pc, sub_refused>>
    /\ UNCHANGED <<sub_round, sub_choice, sub_requests, sub_status, sub_ret>>
    /\ UNCHANGED <<coreVars, turnVars, parseVars, tagVars, ingestVars>>

\* lines 192-194: the round's label is reported after the last call.
SubRoundEnd ==
    /\ sub_pc = "dispatch"
    /\ sub_idx > Len(sub_choice.tool_calls)
    /\ sub_status' = sub_status \cup {StatusOfRound(sub_round)}
    /\ sub_round' = sub_round + 1
    /\ sub_pc' = AfterSubRound(sub_round)
    /\ UNCHANGED <<sub_choice, sub_idx, sub_requests, sub_executed, sub_refused, sub_ret>>
    /\ UNCHANGED <<coreVars, turnVars, parseVars, tagVars, ingestVars>>

\* lines 196-205: the synthesis request, without tools.
SubFinal ==
    /\ sub_pc = "final"
    /\ sub_requests' = Append(sub_requests, "plain")
    /\ sub_ret' = "final"
    /\ sub_pc' = "done"
    /\ UNCHANGED <<sub_round, sub_choice, sub_idx, sub_executed, sub_refused, sub_status>>
    /\ UNCHANGED <<coreVars, turnVars, parseVars, tagVars, ingestVars>>

SubNext ==
    \/ SubStart
    \/ SubRequest
    \/ SubToolCall
    \/ SubRoundEnd
    \/ SubFinal

SubSpecInit ==
    ChatIdle /\ RegIdle /\ RrfIdle /\ RetIdle /\ RerankIdle
    /\ TurnIdle /\ SubInit /\ ParseIdle /\ TagIdle /\ IngestIdle

SubSpec == SubSpecInit /\ [][SubNext]_vars

\* ------------------------------------------------------------------------
\* _parse_text_tool_calls on arbitrary model output (app/services/llm.py)
\* ------------------------------------------------------------------------
\* Further segments a model output may hold, none of which the pattern of
\* line 243 matches: a <tool_call>{"name": NAME, "arguments": {...}}</tool_call>
\* block, the same with "parameters" for "arguments", an object
\* {"name": NAME, ...} standing as an element of a top-level JSON array, and
\* a code fence line.
ToolCallSeg(nm) == [seg |-> "tool_call", name |-> nm]
ToolCallParamsSeg(nm) == [seg |-> "tool_call_parameters", name |-> nm]
ObjSeg(nm) == [seg |-> "object", name |-> nm]
FenceSeg == [seg |-> "fence", name |-> ""]

Segs ==
    {TextSeg, FenceSeg, FuncSeg("web_search"), FuncSeg("retrieve_documents"),
     ToolCallSeg("web_search"), ToolCallParamsSeg("retrieve_documents"),
     ObjSeg("web_search"), ObjSeg("Alice")}

ModelTexts == UNION {[1..n -> Segs] : n \in 0..MaxSegs}

ParseInit ==
    /\ parse_pc = "start"
    /\ parse_content \in ModelTexts
    /\ parse_ret = <<>>

\* lines 235-257
ParseCall ==
    /\ parse_pc = "start"
    /\ parse_ret' = _parse_text_tool_calls(parse_content)
    /\ parse_pc' = "done"
    /\ UNCHANGED parse_content
    /\ UNCHANGED <<coreVars, turnVars, subVars, tagVars, ingestVars>>

ParseNext ==
    \/ ParseCall

ParseSpecInit ==
    ChatIdle /\ RegIdle /\ RrfIdle /\ RetIdle /\ RerankIdle
    /\ TurnIdle /\ SubIdle /\ ParseInit /\ TagIdle /\ IngestIdle

ParseSpec == ParseSpecInit /\ [][ParseNext]_vars

\* ------------------------------------------------------------------------
\* manage_tags (app/tools/manage_tags.py)
\* ------------------------------------------------------------------------
\* The arguments of a call: the operation, dry_run (a boolean of the tool
\* schema, or left out), and the operation's two strings after strip():
\* p1 is query / tag_to_delete / tag_from, p2 is tag_to_apply / tag_to.
TagArgs ==
    [operation : {"find_and_tag", "delete_tag", "merge_tags", "rename_tag"},
     dry_run : {"omitted", "true", "false"},
     p1 : {"", "x"},
     p2 : {"", "x", "y"}]

\* What the call meets: how many documents match, whether ctx.retrieve_fn
\* is set and returns, and whether a store query or a store RPC raises.
TagEnvs ==
    [docs : 0..MaxDocs,
     retrieve : {"ok", "none", "raise"},
     store : {"ok", "select_raises", "rpc_raises"}]

\* Variant: dry_run left out means execute.
DryRunDefaultFalse(v) == v = "true"

\* lines 62, 97, 125: args.get("dry_run", True)
DryRunOf(v) == v # "false"

TagOutcome(rpcs, selects, result) == [rpcs |-> rpcs, selects |-> selects, result |-> result]

\* lines 59-92
_find_and_tag(args, env) ==
    IF args.p1 = "" \/ args.p2 = "" THEN TagOutcome(<<>>, 0, "missing_parameter")
    ELSE IF env.retrieve # "ok" THEN TagOutcome(<<>>, 0, "failed")
    ELSE IF env.docs = 0 THEN TagOutcome(<<>>, 0, "none_found")
    ELSE IF DryRunOf(args.dry_run)
    THEN IF env.store = "select_raises" THEN TagOutcome(<<>>, 1, "failed")
         ELSE TagOutcome(<<>>, 1, "preview")
    ELSE IF env.store = "rpc_raises" THEN TagOutcome(<<"apply_tag_to_docs">>, 0, "failed")
    ELSE TagOutcome(<<"apply_tag_to_docs">>, 0, "applied")

\* lines 114-118 and 146-150: the RPC of delete_tag and merge_tags, after
\* _docs_with_tag found the documents.
TagRpc(rpc, args, env) ==
    IF env.store = "select_raises" THEN TagOutcome(<<>>, 1, "failed")
    ELSE IF env.docs = 0 THEN TagOutcome(<<>>, 1, "none_found")
    ELSE IF DryRunOf(args.dry_run) THEN TagOutcome(<<>>, 1, "preview")
    ELSE IF env.store = "rpc_raises" THEN TagOutcome(<<rpc>>, 1, "failed")
    ELSE TagOutcome(<<rpc>>, 1, "applied")

\* lines 95-119
_delete_tag(args, env) ==
    IF args.p1 = "" THEN TagOutcome(<<>>, 0, "missing_parameter")
    ELSE TagRpc("delete_tag_from_docs", args, env)

\* lines 122-151
_merge_tags(args, env) ==
    IF args.p1 = "" \/ args.p2 = "" THEN TagOutcome(<<>>, 0, "missing_parameter")
    ELSE IF args.p1 = args.p2 THEN TagOutcome(<<>>, 0, "identical")
    ELSE TagRpc("merge_tags", args, env)

\* lines 165-176
_handler(args, env) ==
    IF args.operation = "find_and_tag" THEN _find_and_tag(args, env)
    ELSE IF args.operation = "delete_tag" THEN _delete_tag(args, env)
    ELSE IF args.operation = "merge_tags" THEN _merge_tags(args, env)
    ELSE TagOutcome(<<>>, 0, "unknown_operation")

TagInit ==
    /\ tag_pc = "start"
    /\ tag_args \in TagArgs
    /\ tag_env \in TagEnvs
    /\ tag_rpcs = <<>>
    /\ tag_selects = 0
    /\ tag_result = "none"

TagHandle ==
    /\ tag_pc = "start"
    /\ tag_rpcs' = _handler(tag_args, tag_env).rpcs
    /\ tag_selects' = _handler(tag_args, tag_env).selects
    /\ tag_result' = _handler(tag_args, tag_env).result
    /\ tag_pc' = "done"
    /\ UNCHANGED <<tag_args, tag_env>>
    /\ UNCHANGED <<coreVars, turnVars, subVars, parseVars, ingestVars>>

TagNext ==
    \/ TagHandle

TagSpecInit ==
    ChatIdle /\ RegIdle /\ RrfIdle /\ RetIdle /\ RerankIdle
    /\ TurnIdle /\ SubIdle /\ ParseIdle /\ TagInit /\ IngestIdle

TagSpec == TagSpecInit /\ [][TagNext]_vars

\* ------------------------------------------------------------------------
\* ingest_document (app/services/ingestion.py)
\* ------------------------------------------------------------------------
EMBEDDING_BATCH_SIZE == 100
CHUNK_INSERT_BATCH_SIZE == 50

\* len(chunks): empty, or a number of full insert batches with or without
\* one chunk more.
ChunkCounts == {b * CHUNK_INSERT_BATCH_SIZE + r : b \in 0..MaxBatches, r \in 0..1}

\* The smaller of two numbers (the end of a slice).
SliceEnd(a, b) == IF a < b THEN a ELSE b

\* Variant: the except clause only logs.
ExceptStatusKept(status) == status

\* lines 122-127: the except clause sets the status to error.
ExceptStatus(status) == "error"

\* The documents table answers the status updates; the row was uploaded
\* with status pending.
IngestInit ==
    /\ ing_pc = "start"
    /\ doc_exists \in BOOLEAN
    /\ doc_status = (IF doc_exists THEN "pending" ELSE "none")
    /\ status_writes = <<>>
    /\ text_empty \in BOOLEAN
    /\ n_chunks \in ChunkCounts
    /\ n_embedded = 0
    /\ chunks_inserted = 0

\* lines 23-32: a missing document ends the run; otherwise the status is set
\* to processing.
CheckDocument ==
    /\ ing_pc = "start"
    /\ IF ~doc_exists
       THEN /\ ing_pc' = "done"
            /\ UNCHANGED <<doc_status, status_writes>>
       ELSE /\ doc_status' = "processing"
            /\ status_writes' = Append(status_writes, "processing")
            /\ ing_pc' = "extract"
    /\ UNCHANGED <<doc_exists, text_empty, n_chunks, n_embedded, chunks_inserted>>
    /\ UNCHANGED <<coreVars, turnVars, subVars, parseVars, tagVars>>

\* lines 34-51: download, extraction and cleaning; blank text sets the
\* status to error and ends the run, other text is uploaded.
ExtractText ==
    /\ ing_pc = "extract"
    /\ IF text_empty
       THEN /\ doc_status' = "error"
            /\ status_writes' = Append(status_writes, "error")
            /\ ing_pc' = "done"
       ELSE /\ ing_pc' = "metadata"
            /\ UNCHANGED <<doc_status, status_writes>>
    /\ UNCHANGED <<doc_exists, text_empty, n_chunks, n_embedded, chunks_inserted>>
    /\ UNCHANGED <<coreVars, turnVars, subVars, parseVars, tagVars>>

\* lines 53-57: extract_metadata returns and the text is chunked.
ExtractMetadata ==
    /\ ing_pc = "metadata"
    /\ ing_pc' = IF n_chunks = 0 THEN "finish" ELSE "embed"
    /\ UNCHANGED <<doc_exists, doc_status, status_writes, text_empty, n_chunks,
                   n_embedded, chunks_inserted>>
    /\ UNCHANGED <<coreVars, turnVars, subVars, parseVars, tagVars>>

\* lines 60-65: the embeddings of one batch are returned.
EmbedBatch ==
    /\ ing_pc = "embed"
    /\ n_embedded' = SliceEnd(n_embedded + EMBEDDING_BATCH_SIZE, n_chunks)
    /\ ing_pc' = IF n_embedded' < n_chunks THEN "embed" ELSE "insert"
    /\ UNCHANGED <<doc_exists, doc_status, status_writes, text_empty, n_chunks,
                   chunks_inserted>>
    /\ UNCHANGED <<coreVars, turnVars, subVars, parseVars, tagVars>>

\* lines 67-83: the rows of one batch are inserted.
InsertBatch ==
    /\ ing_pc = "insert"
    /\ chunks_inserted' = SliceEnd(chunks_inserted + CHUNK_INSERT_BATCH_SIZE, n_chunks)
    /\ ing_pc' = IF chunks_inserted' < n_chunks THEN "insert" ELSE "finish"
    /\ UNCHANGED <<doc_exists, doc_status, status_writes, text_empty, n_chunks, n_embedded>>
    /\ UNCHANGED <<coreVars, turnVars, subVars, parseVars, tagVars>>

\* lines 85-120: graph extraction and community rebuild, whose exceptions
\* are logged and dropped, then the status is set to ready.
SetReady ==
    /\ ing_pc = "finish"
    /\ doc_status' = "ready"
    /\ status_writes' = Append(status_writes, "ready")
    /\ ing_pc' = "done"
    /\ UNCHANGED <<doc_exists, text_empty, n_chunks, n_embedded, chunks_inserted>>
    /\ UNCHANGED <<coreVars, turnVars, subVars, parseVars, tagVars>>

\* lines 122-129: the download, the extraction, the upload, extract_metadata,
\* generate_embeddings or a chunk insert raises; the except clause sets the
\* status.
StepRaises ==
    /\ ing_pc \in {"extract", "metadata", "embed", "insert"}
    /\ doc_status' = ExceptStatus(doc_status)
    /\ status_writes' = IF ExceptStatus(doc_status) = doc_status THEN status_writes
                        ELSE Append(status_writes, ExceptStatus(doc_status))
    /\ ing_pc' = "done"
    /\ UNCHANGED <<doc_exists, text_empty, n_chunks, n_embedded, chunks_inserted>>
    /\ UNCHANGED <<coreVars, turnVars, subVars, parseVars, tagVars>>

IngestNext ==
    \/ CheckDocument
    \/ ExtractText
    \/ ExtractMetadata
    \/ EmbedBatch
    \/ InsertBatch
    \/ SetReady
    \/ StepRaises

IngestSpecInit ==
    ChatIdle /\ RegIdle /\ RrfIdle /\ RetIdle /\ RerankIdle
    /\ TurnIdle /\ SubIdle /\ ParseIdle /\ TagIdle /\ IngestInit

IngestSpec == IngestSpecInit /\ [][IngestNext]_vars

Init == ChatInit /\ RegIdle /\ RrfIdle /\ RetIdle /\ RerankIdle /\ LateIdle

Spec == Init /\ [][Next]_vars

\* ------------------------------------------------------------------------
\* Properties of stream_chat_completion
\* ------------------------------------------------------------------------
Count(seq, P(_)) == Cardinality({i \in 1..Len(seq) : P(seq[i])})

IsToolCheck(rq) == rq.phase = "tool_check"
IsFinal(rq) == rq.phase = "final"
IsTextItem(o) == o.type = "text"
IsRequestEv(e) == e.ev = "request"

ToolReqs == Count(requests, IsToolCheck)
FinalReqs == Count(requests, IsFinal)

Ended == pc \in {"done", "raised"}

\* Positions of the trace that are completion requests answered as `answer`.
Answered(answer) == {p \in 1..Len(log) : log[p].ev = "request" /\ log[p].name = answer}

\* Every tool-offering completion so far requested a tool call.
CalledEveryTime == tools # <<>> /\ Answered("none") = {}

\* C1: with tools enabled and a model that requests a tool call in every
\* tool-offering completion, the turn ends after exactly MAX_TOOL_ROUNDS
\* tool-offering requests followed by exactly one final streaming request.
C1_RoundCapThenFinal ==
    (Ended /\ CalledEveryTime) =>
        /\ ToolReqs = MAX_TOOL_ROUNDS
        /\ FinalReqs = 1
        /\ IsFinal(requests[Len(requests)])

\* C2: when the first completion carries neither a structured nor a
\* text-encoded tool call, the turn is over after that one request: no tool
\* was executed and the only thing yielded is that completion's content, as
\* one text item (nothing when the content is empty).
C2_NoToolCallEndsRoundOne ==
    (Len(log) >= 1 /\ log[1] = RequestEv("none")) =>
        /\ pc = "done"
        /\ Len(requests) = 1
        /\ Len(log) = 1
        /\ running = {}
        /\ Len(full_messages) = requests[1].nmsgs
        /\ out = (IF choice.content # <<>> THEN <<Text(choice.content)>> ELSE <<>>)

C2_Witness ==
    /\ pc = "done"
    /\ log = <<RequestEv("none")>>
    /\ out = <<Text(<<TextSeg>>)>>

\* C3: every turn that ends has yielded at least one text token.
C3_TurnEndsWithContent ==
    Ended => \E i \in 1..Len(out) : IsTextItem(out[i])
Pos(ev) == {p \in 1..Len(log) : log[p].ev = ev}

\* The completion requests of the trace, in order; the calls of round r
\* (0-based) were requested by the answer to request r + 1.
RequestEvs == SelectSeq(log, IsRequestEv)
RoundOf(id) == (id \div 10) - 1

IsResultMsg(m) == m.role = "tool" \/ (m.role = "user" /\ m.name # "")

\* C4: the calls of a round run one at a time in the order the model listed
\* them: a call starts only after every earlier call returned and had its
\* result message appended, each structured call gets exactly one tool
\* message with its tool_call_id, and a completion request is issued only
\* when every listed call has its result message.
C4_SequentialInListedOrder ==
    LET starts == Pos("start")
        appends == Pos("append")
        listed == Pos("listed")
        called == {log[p].id : p \in listed}
        \* where the result message of a call was appended (0: not yet)
        appendedAt == [x \in called |->
                         IF \E r \in appends : log[r].id = x
                         THEN CHOOSE r \in appends : log[r].id = x
                         ELSE 0]
        toolMsgs == {i \in 1..Len(full_messages) : full_messages[i].role = "tool"}
        kinds == RequestEvs
    IN /\ \A p \in starts : log[p].id \in called
       /\ \A p \in appends : log[p].id \in called /\ appendedAt[log[p].id] = p
       /\ \A p, q \in starts :
             q < p =>
               /\ log[q].id < log[p].id
               /\ q < appendedAt[log[q].id]
               /\ appendedAt[log[q].id] < p
       /\ \A p \in starts : \A q \in listed :
             (log[q].id < log[p].id) =>
                (0 < appendedAt[log[q].id] /\ appendedAt[log[q].id] < p)
       /\ \A p \in appends :
             kinds[RoundOf(log[p].id) + 1].name = "structured" =>
                Cardinality({i \in toolMsgs : full_messages[i].tool_call_id = log[p].id}) = 1
       /\ \A i \in toolMsgs :
             /\ full_messages[i].tool_call_id \in called
             /\ appendedAt[full_messages[i].tool_call_id] > 0
       /\ \A p \in Pos("request") : \A q \in listed :
             q < p => (q < appendedAt[log[q].id] /\ appendedAt[log[q].id] < p)

C4_Witness ==
    /\ Len(requests) >= 2
    /\ log[1] = RequestEv("structured")
    /\ \E p, q \in Pos("append") : log[p].id = CallId(0, 1) /\ log[q].id = CallId(0, 2)

IsStatusEvent(o) == o.type = "event" /\ o.tool_name = "deep_analysis" /\ o.data # 0

\* C5: a completion whose content parses to text-encoded calls is handled
\* like one with structured calls: each parsed call is dispatched through
\* _execute_tool and gets one result message, a web_search call yields its
\* web_search event and a sub-agent run its status events, the turn does not
\* end on that round, and the round uses up one of the MAX_TOOL_ROUNDS.
C5_TextCallsRunAndContinue ==
    /\ Ended => \A p \in Answered("text") : \E q \in Pos("request") : q > p
    /\ \A p \in Answered("text") :
          /\ p < Len(log)
          /\ log[p + 1].ev = "listed"
    /\ \A j \in 1..Len(requests) :
          /\ IsToolCheck(requests[j]) => (requests[j].round = j - 1 /\ j <= MAX_TOOL_ROUNDS)
          /\ IsFinal(requests[j]) => j = MAX_TOOL_ROUNDS + 1
    /\ Count(full_messages, IsResultMsg) = Cardinality(Pos("append"))
    /\ \A i \in 1..Len(full_messages) :
          (full_messages[i].role = "user" /\ full_messages[i].name # "") =>
             full_messages[i].body = _execute_tool(full_messages[i].name).body
    /\ \A p \in Pos("append") :
          Cardinality({i \in 1..Len(out) :
                          /\ out[i].type = "event"
                          /\ out[i].tool_name = "web_search"
                          /\ out[i].data = log[p].id})
             = (IF log[p].name = "web_search" THEN 1 ELSE 0)
    /\ Count(out, IsStatusEvent)
          >= Cardinality({p \in Pos("append") : _execute_tool(log[p].name).sub_agent})

C5_Witness ==
    /\ Len(requests) = 2
    /\ log[1] = RequestEv("text")
    /\ requests[2].round = 1
    /\ \E p \in Pos("append") : log[p].name = "web_search" /\ log[p].id = CallId(0, 1)
    /\ \E i \in 1..Len(out) : out[i] = ToolEvent("web_search", CallId(0, 1))
\* ------------------------------------------------------------------------
\* Properties of execute_tool
\* ------------------------------------------------------------------------
ContainsUnknownTool(str) == \E j \in 1..Len(str) : str[j] = "Unknown tool: "

IsDispatched(c) == c.handler

\* C6: execute_tool with a name that is not registered returns a string
\* containing "Unknown tool", does not raise, runs no handler and leaves the
\* registry as it was.
C6_UnknownToolSentinel ==
    /\ \A i \in 1..Len(reg_calls) :
          LET c == reg_calls[i]
          IN c.name \notin c.before =>
                /\ c.outcome = "returned"
                /\ ContainsUnknownTool(c.result)
                /\ ~c.handler
                /\ c.after = c.before
    /\ Len(handler_calls) = Count(reg_calls, IsDispatched)
    /\ \A i \in 1..Len(handler_calls) : handler_calls[i] \in plugins
    /\ \A i \in 1..Len(reg_calls) : reg_calls[i].after = plugins

C6_Witness ==
    /\ Len(reg_calls) = 2
    /\ plugins # {}
    /\ reg_calls[1].name = "nonexistent"
    /\ reg_calls[2].name \in plugins
    /\ Len(handler_calls) = 1

\* ------------------------------------------------------------------------
\* Properties of reciprocal_rank_fusion
\* ------------------------------------------------------------------------
\* The lists the last fusion was given.
OpLists ==
    CASE rrf_op = "AB" -> <<A, B>>
      [] rrf_op = "BA" -> <<B, A>>
      [] rrf_op = "A" -> <<A>>
      [] rrf_op = "AA" -> <<A, A>>
      [] OTHER -> <<>>

Fused == rrf_op # "none"

\* The places <<list, 0-based rank>> at which a chunk identity occurs.
Places(lists, c) ==
    {pl \in UNION {{<<l, r>> : r \in 0..(Len(lists[l]) - 1)} : l \in 1..Len(lists)} :
        lists[pl[1]][pl[2] + 1].id.v = c}

RECURSIVE SumReciprocals(_, _)
SumReciprocals(places, k) ==
    IF places = {} THEN 0
    ELSE LET pl == CHOOSE x \in places : TRUE
         IN (Unit(k) \div (k + pl[2] + 1)) + SumReciprocals(places \ {pl}, k)

Identities(lists) ==
    UNION {{lists[l][i].id.v : i \in 1..Len(lists[l])} : l \in 1..Len(lists)}

IdsOf(rows) == [i \in 1..Len(rows) |-> rows[i].id]

\* C7: the score of every chunk identity is the sum of 1/(k + r + 1) over
\* every list and 0-based rank r at which it occurs; [[a,b],[b,c]] with k=60
\* gives a=1/61, b=1/61+1/62, c=1/62 and the order [b, a, c].
C7_ScoreIsSumOfReciprocalRanks ==
    Fused =>
      /\ \A r \in 0..(MaxLen - 1) : Unit(rrf_k) % (rrf_k + r + 1) = 0
      /\ \A i \in 1..Len(merged) :
            merged[i].rrf_score = SumReciprocals(Places(OpLists, merged[i].id.v), rrf_k)
      /\ (/\ rrf_op = "AB"
          /\ rrf_k = 60
          /\ IdsOf(A) = <<StrId("a"), StrId("b")>>
          /\ IdsOf(B) = <<StrId("b"), StrId("c")>>) =>
            /\ IdsOf(merged) = <<StrId("b"), StrId("a"), StrId("c")>>
            /\ merged[2].rrf_score * 61 = Unit(60)
            /\ merged[3].rrf_score * 62 = Unit(60)
            /\ merged[1].rrf_score = merged[2].rrf_score + merged[3].rrf_score

C7_Witness ==
    /\ rrf_op = "AB"
    /\ rrf_k = 60
    /\ IdsOf(A) = <<StrId("a"), StrId("b")>>
    /\ IdsOf(B) = <<StrId("b"), StrId("c")>>
    /\ IdsOf(merged) = <<StrId("b"), StrId("a"), StrId("c")>>

\* The rows of all lists in the order the loops visit them.
RECURSIVE Concat(_)
Concat(lists) == IF lists = <<>> THEN <<>> ELSE Head(lists) \o Concat(Tail(lists))

FirstSeen(lists, c) ==
    LET all == Concat(lists)
    IN CHOOSE i \in 1..Len(all) :
          /\ all[i].id.v = c
          /\ \A j \in 1..(i - 1) : all[j].id.v # c

\* C8: the output holds every chunk identity of the input lists exactly once
\* (identity is str(id)) and is ordered by score, highest first, equal scores
\* in first-seen order.
C8_DedupedAndSortedDescending ==
    Fused =>
      /\ {merged[i].id.v : i \in 1..Len(merged)} = Identities(OpLists)
      /\ Len(merged) = Cardinality(Identities(OpLists))
      /\ \A i \in 1..(Len(merged) - 1) :
            /\ merged[i].rrf_score >= merged[i + 1].rrf_score
            /\ merged[i].rrf_score = merged[i + 1].rrf_score =>
                  FirstSeen(OpLists, merged[i].id.v) < FirstSeen(OpLists, merged[i + 1].id.v)

C8_Witness ==
    /\ rrf_op = "AB"
    /\ \E i \in 1..Len(A), j \in 1..Len(B) :
          A[i].id = IntId("1") /\ B[j].id = StrId("1")
    /\ Len(merged) = 3
    /\ merged[2].rrf_score = merged[3].rrf_score
    /\ merged[1].rrf_score > merged[2].rrf_score

ScoreIn(rows, c) ==
    LET at == {i \in 1..Len(rows) : rows[i].id.v = c}
    IN IF at = {} THEN -1 ELSE rows[CHOOSE i \in at : TRUE].rrf_score

\* C9: swapping the two input lists changes no chunk's total score.
C9_FusionSymmetry ==
    rrf_op = "AB" =>
       \A c \in Identities(<<A, B>>) :
          /\ ScoreIn(merged, c) > 0
          /\ ScoreIn(merged, c) = ScoreIn(reciprocal_rank_fusion(<<B, A>>, rrf_k), c)

C9_Witness ==
    /\ rrf_op = "AB"
    /\ \E i \in 1..Len(A), j \in 1..Len(B) : A[i].id.v = B[j].id.v /\ i # j
    /\ \E i \in 1..Len(A) : \A j \in 1..Len(B) : A[i].id.v # B[j].id.v

\* C10: fusing one list, or a list with itself, returns its chunks in the
\* list's own order with strictly decreasing scores.
C10_SingleListKeepsOrder ==
    rrf_op \in {"A", "AA"} =>
      /\ Len(merged) = Len(A)
      /\ \A i \in 1..Len(merged) : merged[i].id = A[i].id /\ merged[i].src = A[i].src
      /\ \A i \in 1..(Len(merged) - 1) : merged[i].rrf_score > merged[i + 1].rrf_score

C10_Witness ==
    /\ rrf_op = "AA"
    /\ Len(A) = MaxLen
    /\ IdsOf(merged) = IdsOf(A)

\* ------------------------------------------------------------------------
\* Properties of rerank_chunks
\* ------------------------------------------------------------------------
Min(a, b) == IF a < b THEN a ELSE b

\* The position of the chunk with this id in a list of distinct chunks.
PlaceOf(list, id) == CHOOSE i \in 1..Len(list) : list[i].id = id

Succeeded(call) == call.called /\ call.model.kind = "ok"

Omitted(call, c) == Str(c.id) \notin DOMAIN call.model.rankings

\* The ranking holds exactly the candidates, each once, each with a score.
RankingKeepsAll(call) ==
    /\ Len(call.ranking) = Len(call.chunks)
    /\ \A i \in 1..Len(call.chunks) :
          \E j \in 1..Len(call.ranking) : call.ranking[j].id = call.chunks[i].id
    /\ \A j \in 1..Len(call.ranking) : "rerank_score" \in DOMAIN call.ranking[j]

\* C12: rerank_chunks(query, candidates, top_n) returns exactly
\* min(top_n, len(candidates)) chunks for every top_n >= 0, whether the
\* model call succeeds or fails.
C12_RerankLengthIsMin ==
    \A n \in 1..Len(rr_ret) :
        Len(rr_ret[n].ret) = Min(rr_top_n, Len(rr_chunks))

\* C14 as stated: after a successful rerank every candidate carries a
\* rerank_score; a candidate the model omitted gets 0.0, is kept in the
\* ranking and comes after every candidate the model scored.
C14_OmittedAfterEveryScored ==
    \A n \in 1..Len(rr_ret) : Succeeded(rr_ret[n]) =>
        /\ RankingKeepsAll(rr_ret[n])
        /\ \A i \in 1..Len(rr_ret[n].ranking) :
              LET c == rr_ret[n].ranking[i]
              IN Omitted(rr_ret[n], c) =>
                    /\ c.rerank_score = 0
                    /\ \A j \in 1..Len(rr_ret[n].ranking) :
                          ~Omitted(rr_ret[n], rr_ret[n].ranking[j]) => j < i

\* C14 as amended: after a successful rerank every candidate carries a
\* rerank_score (the model's score if it gave one); a candidate the model
\* omitted gets 0.0, is kept in the ranking and comes after every candidate
\* the model scored above 0.0; among candidates of equal score the input
\* order is kept, so a candidate scored 0.0 may come after it.
C14_OmittedAfterPositivelyScored ==
    \A n \in 1..Len(rr_ret) : Succeeded(rr_ret[n]) =>
        /\ RankingKeepsAll(rr_ret[n])
        /\ \A i \in 1..Len(rr_ret[n].ranking) :
              LET c == rr_ret[n].ranking[i]
              IN /\ ~Omitted(rr_ret[n], c) =>
                        c.rerank_score = rr_ret[n].model.rankings[Str(c.id)]
                 /\ Omitted(rr_ret[n], c) =>
                    /\ c.rerank_score = 0
                    /\ \A j \in 1..Len(rr_ret[n].ranking) :
                          rr_ret[n].ranking[j].rerank_score > 0 => j < i
                    /\ \A j \in 1..Len(rr_ret[n].ranking) :
                          (rr_ret[n].ranking[j].rerank_score = 0 /\ j < i) =>
                             PlaceOf(rr_chunks, rr_ret[n].ranking[j].id)
                                < PlaceOf(rr_chunks, c.id)
        /\ rr_ret[n].ret = Take(rr_ret[n].ranking, Len(rr_ret[n].ret))

\* An omitted first candidate is overtaken by a later one the model scored
\* above 0.0 and is still in the ranking, in front of a candidate scored 0.0
\* given after it.
C14_Witness ==
    /\ Len(rr_ret) = 1
    /\ Succeeded(rr_ret[1])
    /\ Len(rr_chunks) = 3
    /\ rr_top_n = 2
    /\ Omitted(rr_ret[1], rr_chunks[1])
    /\ ~Omitted(rr_ret[1], rr_chunks[2])
    /\ ~Omitted(rr_ret[1], rr_chunks[3])
    /\ rr_ret[1].model.rankings[Str(rr_chunks[2].id)] = 0
    /\ rr_ret[1].model.rankings[Str(rr_chunks[3].id)] = 10
    /\ rr_ret[1].ranking[1].id = rr_chunks[3].id
    /\ rr_ret[1].ranking[2].id = rr_chunks[1].id
    /\ rr_ret[1].ranking[3].id = rr_chunks[2].id
    /\ Len(rr_ret[1].ret) = 2

\* ------------------------------------------------------------------------
\* Properties of retrieve_chunks and generate_sub_queries
\* ------------------------------------------------------------------------
SearchFailed == \E t \in DOMAIN searches : searches[t].st = "failed"

AllSearchesDone == \A t \in DOMAIN searches : searches[t].st = "done"

AllQueriesResolved ==
    \A i \in DOMAIN per_query_results : per_query_results[i].st = "done"

HasMerged == ret_pc \in {"merged", "done"}

\* What _retrieve_one makes of the rows its searches returned.
ResolutionOf(i) ==
    IF search_mode = "hybrid"
    THEN reciprocal_rank_fusion(<<searches[<<i, "semantic">>].rows,
                                  searches[<<i, "keyword">>].rows>>, RetrievalK)
    ELSE searches[<<i, search_mode>>].rows

ExpansionFailed ==
    \E n \in 1..Len(expansion) : expansion[n].model.kind # "ok"

\* A run on the original query alone: one query, its searches only, no
\* fusion across queries, and the result made of that query's resolution.
SingleQueryRun ==
    /\ all_queries = <<query>>
    /\ DOMAIN searches = {<<1, kind>> : kind \in KindsOf(search_mode)}
    /\ DOMAIN per_query_results = {1}
    /\ HasMerged => ret_results = ResolutionOf(1)
    /\ ret_pc = "done" =>
          IF rerank_enabled /\ ret_results # <<>>
          THEN /\ Len(rerank_calls) = 1
               /\ rerank_calls[1].chunks = ret_results
               /\ rerank_calls[1].top_n = top_k
               /\ returned = rerank_calls[1].ret
          ELSE /\ rerank_calls = <<>>
               /\ returned = Take(ret_results, top_k)

\* C11: for every search mode, every setting of expansion and reranking and
\* every top_k >= 0, retrieve_chunks returns at most top_k chunks.
C11_AtMostTopK ==
    ret_pc = "done" => Len(returned) <= top_k

\* C13: when the reranker's model call raises or returns malformed output,
\* rerank_chunks returns its input order truncated to top_n, so retrieve
\* returns the first top_k fused candidates in fused order.
C13_FallbackKeepsFusedOrder ==
    \A n \in 1..Len(rerank_calls) : rerank_calls[n].model.kind # "ok" =>
        /\ rerank_calls[n].ret = Take(rerank_calls[n].chunks, rerank_calls[n].top_n)
        /\ ret_pc = "done"
        /\ returned = Take(ret_results, top_k)

\* C15: the reranker is invoked at most once per retrieve_chunks call, only
\* when reranking is enabled and the merged list is non-empty, after every
\* search and every fusion pass has completed, on the merged list and with
\* the original query text.
C15_RerankOnceAfterFusion ==
    [][rerank_calls' # rerank_calls =>
          /\ rerank_calls = <<>>
          /\ Len(rerank_calls') = 1
          /\ rerank_enabled
          /\ ret_pc = "merged"
          /\ AllSearchesDone
          /\ AllQueriesResolved
          /\ ret_results # <<>>
          /\ rerank_calls'[1].chunks = ret_results
          /\ rerank_calls'[1].query = query
          /\ rerank_calls'[1].query = all_queries[1]
          /\ rerank_calls'[1].top_n = top_k]_vars

C15_Witness ==
    /\ ret_pc = "done"
    /\ search_mode = "hybrid"
    /\ Len(all_queries) = 2
    /\ all_queries[2] # query
    /\ Len(rerank_calls) = 1
    /\ rerank_calls[1].model.kind = "ok"
    /\ Len(ret_results) = 3

\* C16: when the expansion fails, generate_sub_queries returns [] and does
\* not raise, and retrieve_chunks with expansion enabled performs the
\* searches and returns the result of a run with expansion disabled.
C16_ExpansionFallback ==
    /\ \A n \in 1..Len(expansion) :
          expansion[n].model.kind # "ok" => expansion[n].ret = <<>>
    /\ (ret_pc # "start" /\ (~rag_fusion_enabled \/ ExpansionFailed)) =>
          /\ SingleQueryRun
          /\ ret_pc = "raised" => SearchFailed

C16_Witness ==
    /\ ret_pc = "done"
    /\ rag_fusion_enabled
    /\ rag_fusion_query_count = 1
    /\ Len(expansion) = 1
    /\ expansion[1].model.kind = "raise"
    /\ search_mode = "hybrid"
    /\ Len(ret_results) = 3
    /\ top_k = 2
    /\ Len(returned) = 2

\* C17: generate_sub_queries(query, count) returns at most count strings
\* for every count >= 0.
C17_AtMostCount ==
    \A n \in 1..Len(expansion) : Len(expansion[n].ret) <= expansion[n].count

C17_Witness ==
    /\ Len(expansion) = 1
    /\ expansion[1].count = 1
    /\ Len(expansion[1].model.queries) = 2
    /\ Len(expansion[1].ret) = 1

\* C18: the list returned by the expansion never contains the original
\* query, so the query set holds the original query exactly once.
C18_OriginalQueryOnce ==
    /\ \A n \in 1..Len(expansion) :
          \A i \in 1..Len(expansion[n].ret) : expansion[n].ret[i] # query
    /\ ret_pc # "start" =>
          Cardinality({i \in DOMAIN all_queries : all_queries[i] = query}) = 1

\* Every search that has returned so far returned no rows, and none failed.
EmptyCorpus ==
    /\ ret_pc # "start"
    /\ \A t \in DOMAIN searches : searches[t].st # "failed" /\ searches[t].rows = <<>>

\* C19: when every search returns an empty list, retrieve_chunks in hybrid
\* mode returns [] without raising and without invoking the reranker.
C19_EmptyCorpusReturnsEmpty ==
    (search_mode = "hybrid" /\ EmptyCorpus) =>
        /\ ret_pc # "raised"
        /\ rerank_calls = <<>>
        /\ \A i \in DOMAIN per_query_results : per_query_results[i].rows = <<>>
        /\ ret_results = <<>>
        /\ returned = <<>>

C19_Witness ==
    /\ search_mode = "hybrid"
    /\ EmptyCorpus
    /\ AllSearchesDone
    /\ ret_pc = "done"
    /\ rerank_enabled
    /\ rag_fusion_enabled
    /\ Len(all_queries) = 2
    /\ top_k = 2

\* C20: no fusion step starts before every search of its group has
\* completed: a query is resolved only from the rows of both of its
\* searches, the merge happens only when every query is resolved, and a
\* group with a failed search produces no result.
C20_FanInBarrier ==
    /\ \A i \in DOMAIN per_query_results :
          per_query_results[i].st = "done" =>
             /\ \A kind \in KindsOf(search_mode) : searches[<<i, kind>>].st = "done"
             /\ per_query_results[i].rows = ResolutionOf(i)
    /\ \A i \in DOMAIN per_query_results :
          (\E kind \in KindsOf(search_mode) : searches[<<i, kind>>].st = "failed") =>
             per_query_results[i] = Pending
    /\ HasMerged =>
          /\ AllQueriesResolved
          /\ AllSearchesDone
          /\ ret_results =
                IF Len(per_query_results) = 1 THEN per_query_results[1].rows
                ELSE reciprocal_rank_fusion(
                        [i \in 1..Len(per_query_results) |-> per_query_results[i].rows],
                        RetrievalK)
    /\ SearchFailed => (ret_pc = "raised" /\ ret_results = <<>> /\ returned = <<>>)

\* One search of the first query failed while its sibling returned rows;
\* the second query was resolved from both of its searches; nothing was
\* merged.
C20_Witness ==
    /\ search_mode = "hybrid"
    /\ Len(all_queries) = 2
    /\ ret_pc = "raised"
    /\ searches[<<1, "semantic">>].st = "failed"
    /\ searches[<<1, "keyword">>].st = "done"
    /\ Len(searches[<<1, "keyword">>].rows) = 2
    /\ per_query_results[1].st = "pending"
    /\ per_query_results[2].st = "done"
    /\ Len(per_query_results[2].rows) = 3

\* ------------------------------------------------------------------------
\* Score fields of the candidates (retrieve_chunks)
\* ------------------------------------------------------------------------
\* C21: during one retrieve_chunks call every candidate dict has its
\* rrf_score and its rerank_score written once, by one component: no dict
\* has a field written by two steps of the pipeline.
C21_ScoresWrittenOnce ==
    \A w, v \in score_writes : (w.field = v.field /\ w.dict = v.dict) => (w.by = v.by)

\* ------------------------------------------------------------------------
\* Message rows of a chat turn (chat / event_generator)
\* ------------------------------------------------------------------------
\* The model stream has not been consumed to its end.
StreamUnfinished == turn_pc \in {"start", "streaming", "cancelled", "failed"}

\* The rows written by this turn.
NewRows == SubSeq(messages_table, history_len + 1, Len(messages_table))

C23_NoExceptionLeavesLoop == pc # "raised"

\* ------------------------------------------------------------------------
\* The sub-agent (run_sub_agent)
\* ------------------------------------------------------------------------
SubReqs(kind) == Cardinality({i \in 1..Len(sub_requests) : sub_requests[i] = kind})

SubEnded == sub_pc \in {"done", "raised"}

\* C24: run_sub_agent issues at most MAX_SUB_AGENT_ROUNDS tool-offering
\* requests; it returns the content of the first completion without a tool
\* call, and a run in which every tool-offering completion asked for a tool
\* ends after exactly MAX_SUB_AGENT_ROUNDS of them and exactly one further
\* request without tools, whose content it returns.
C24_SubAgentRoundCap ==
    /\ SubReqs("tools") <= MAX_SUB_AGENT_ROUNDS
    /\ (sub_ret = "content") =>
          /\ SubReqs("plain") = 0
          /\ sub_requests[Len(sub_requests)] = "tools"
    /\ (SubEnded /\ sub_ret # "content") =>
          /\ SubReqs("tools") = MAX_SUB_AGENT_ROUNDS
          /\ SubReqs("plain") = 1
          /\ sub_requests[Len(sub_requests)] = "plain"
          /\ sub_ret = "final"

\* C25: the sub-agent runs no tool outside its allowlist: a structured call
\* to another name is answered with a "not available" message and no tool
\* run, a text-encoded call to another name is dropped by the parser, and
\* every label reported is one of the five of STATUS_MESSAGES.
C25_OnlyAllowedTools ==
    /\ sub_executed \subseteq _ALLOWED_TOOLS
    /\ sub_refused \cap _ALLOWED_TOOLS = {}
    /\ (sub_pc \in {"dispatch", "raised"}) =>
          \A i \in 1..(sub_idx - 1) :
             sub_choice.tool_calls[i].name \notin _ALLOWED_TOOLS =>
                sub_choice.tool_calls[i].name \in sub_refused
    /\ \A i \in 1..Len(_parse_sub_agent_tool_calls(sub_choice.content)) :
          _parse_sub_agent_tool_calls(sub_choice.content)[i] \in _ALLOWED_TOOLS
    /\ sub_status \subseteq {STATUS_MESSAGES[i] : i \in 1..5}
    /\ Len(STATUS_MESSAGES) = 5

\* A structured call to web_search was refused, both allowed tools were run,
\* and the last completion, a text-encoded call to web_search alone, was
\* returned as content with no tool run for it.
C25_Witness ==
    /\ sub_pc = "done"
    /\ sub_ret = "content"
    /\ sub_refused = {"web_search"}
    /\ sub_executed = _ALLOWED_TOOLS
    /\ sub_choice.content = <<TextSeg, FuncSeg("web_search")>>
    /\ Cardinality(sub_status) >= 2

\* ------------------------------------------------------------------------
\* The text tool-call parser (_parse_text_tool_calls)
\* ------------------------------------------------------------------------
\* The names of the segments of the given kinds, in text order.
RECURSIVE NamesOf(_, _)
NamesOf(content, kinds) ==
    IF content = <<>> THEN <<>>
    ELSE (IF Head(content).seg \in kinds THEN <<Head(content).name>> ELSE <<>>)
         \o NamesOf(Tail(content), kinds)

CallNamesOf(calls) == [i \in 1..Len(calls) |-> calls[i].name]

\* The text with a leading and a trailing code fence line removed.
StripFence(content) ==
    IF Len(content) >= 2 /\ Head(content) = FenceSeg /\ content[Len(content)] = FenceSeg
    THEN SubSeq(content, 2, Len(content) - 1)
    ELSE content

\* The whole text is a JSON array of objects with a name.
IsObjectArray(content) ==
    content # <<>> /\ \A i \in 1..Len(content) : content[i].seg = "object"

ToolNames == {"web_search", "retrieve_documents"}

\* C26: the parser recognises three encodings, the first that matches
\* winning: <function=NAME> blocks; <tool_call>{json}</tool_call> blocks
\* with name and arguments or parameters; the whole text, a code fence
\* stripped, as a JSON array of objects naming tools.  It returns one call
\* per block in text order, and None when no form matches.
C26_ThreeEncodings ==
    (parse_pc = "done") =>
        CallNamesOf(parse_ret) =
            IF NamesOf(parse_content, {"function"}) # <<>>
            THEN NamesOf(parse_content, {"function"})
            ELSE IF NamesOf(parse_content, {"tool_call", "tool_call_parameters"}) # <<>>
            THEN NamesOf(parse_content, {"tool_call", "tool_call_parameters"})
            ELSE IF /\ IsObjectArray(StripFence(parse_content))
                    /\ \A i \in 1..Len(StripFence(parse_content)) :
                          StripFence(parse_content)[i].name \in ToolNames
            THEN NamesOf(parse_content, {"object"})
            ELSE <<>>

\* The whole text is a JSON array of data objects none of which names a
\* tool.
IsDataArray(content) ==
    /\ IsObjectArray(StripFence(content))
    /\ \A i \in 1..Len(StripFence(content)) : StripFence(content)[i].name \notin ToolNames

\* C27: for a text that is a JSON array of plain data objects whose names
\* are not tool names the parser returns None.
C27_NoFalsePositive ==
    (parse_pc = "done" /\ IsDataArray(parse_content)) => parse_ret = <<>>

\* The parser was given a fenced array of one person record.
C27_Witness ==
    /\ parse_pc = "done"
    /\ parse_content = <<FenceSeg, ObjSeg("Alice"), FenceSeg>>
    /\ parse_ret = <<>>

\* ------------------------------------------------------------------------
\* manage_tags
\* ------------------------------------------------------------------------
\* The RPC that carries out an operation.
MutatingRpc ==
    [find_and_tag |-> "apply_tag_to_docs", delete_tag |-> "delete_tag_from_docs",
     merge_tags |-> "merge_tags"]

\* The operation's parameters pass its validation.
TagParamsValid ==
    /\ tag_args.operation \in DOMAIN MutatingRpc
    /\ tag_args.p1 # ""
    /\ tag_args.operation = "find_and_tag" => tag_args.p2 # ""
    /\ tag_args.operation = "merge_tags" => (tag_args.p2 # "" /\ tag_args.p2 # tag_args.p1)

IsDoneEvent(o) == o = DoneEvent

IsFirstStatus(o) == IsStatusEvent(o) /\ o.data = 1

\* The runs of the sub-agent that have returned.
SubAgentReturns == {p \in Pos("return") : _execute_tool(log[p].name).sub_agent}

\* C29: the deep_analysis done event is yielded at most once, only when a
\* deep_analysis call was run earlier in the turn, after every status event
\* and before the first text of the answer; the status events collected
\* during one tool run are yielded once, in order, and not again with a
\* later call.
C29_DeepAnalysisEvents ==
    /\ Count(out, IsDoneEvent) <= 1
    /\ \A d \in 1..Len(out) :
          IsDoneEvent(out[d]) =>
             /\ \E p \in Pos("return") : log[p].name = "deep_analysis"
             /\ \A i \in 1..Len(out) : IsStatusEvent(out[i]) => i < d
             /\ \A i \in 1..Len(out) : IsTextItem(out[i]) => i > d
    /\ Count(out, IsFirstStatus) = Cardinality(SubAgentReturns)
    /\ \A i \in 1..Len(out) :
          (IsStatusEvent(out[i]) /\ out[i].data > 1) =>
             /\ i > 1
             /\ out[i - 1] = ToolEvent("deep_analysis", out[i].data - 1)

\* A deep_analysis run reported two phases, a web_search call followed, and
\* the turn ended with the done event just before the text.
C29_Witness ==
    /\ pc = "done"
    /\ \E d \in 4..(Len(out) - 1) :
          /\ out[d] = DoneEvent
          /\ IsTextItem(out[d + 1])
          /\ \E i \in 2..(d - 2) :
                /\ out[i] = ToolEvent("deep_analysis", 2)
                /\ out[i + 1].tool_name = "web_search"

====
